---- MODULE Spec2Model ----
(***************************************************************************)
(* A model of the swiggyit extraction pipeline: the currency/number        *)
(* normalizers, the summary extractor (parser/summary_parser.py), the food *)
(* detail extractor (parser/food_parser.py), the instamart detail          *)
(* extractor (parser/instamart_parser.py), the validators (validator.py),  *)
(* the database loader (loader.py) and the downloader (downloader.py).     *)
(*                                                                         *)
(* Text is modelled as a sequence of one-character strings, so that the    *)
(* regular expressions, str.strip, str.replace, str.isdigit and float()    *)
(* of the source are computed character by character.  A number is the     *)
(* exact decimal [m, e] standing for m * 10^(-e), with no trailing zero in *)
(* the fraction, so that equal floats are equal records.                   *)
(***************************************************************************)
EXTENDS Integers, Sequences, FiniteSets, TLC

VARIABLES
    \* ---- normalizer call (one call of _parse_amount / _parse_float / _pf)
    norm_fn,        \* which normalizer is called
    norm_in,        \* its argument: a text, or None
    norm_pc,        \* "call" | "returned" | "raised"
    norm_out        \* the value returned, or the exception raised

normVars == <<norm_fn, norm_in, norm_pc, norm_out>>

VARIABLES
    \* ---- one call of parse_summary (or of _extract_order_rows alone)
    file_name,      \* file_path.name
    openable,       \* whether fitz.open succeeds on the file
    doc,            \* the pages: each a sequence of text lines
    links,          \* page.get_links() of all pages, in rendering order
    s_pc,           \* position in parse_summary
    s_exc,          \* the exception in flight or propagated, "none" if none
    handle,         \* how often the document was opened and closed
    order_type,     \* local of parse_summary
    header,         \* local of parse_summary: the dict of _extract_header
    urls,           \* local of parse_summary: the list of _extract_urls
    page,           \* _extract_order_rows: index of the page being scanned
    i,              \* _extract_order_rows: line index in the page (1-based)
    date,           \* _extract_order_rows: local
    order_id,       \* _extract_order_rows: local
    name_parts,     \* _extract_order_rows: local
    rows,           \* _extract_order_rows: the rows emitted so far
    warned,         \* whether the count-mismatch warning was printed
    summary         \* the SummaryData returned: <<>> or <<record>>

scanVars == <<page, i, date, order_id, name_parts, rows>>

sumVars == <<file_name, openable, doc, links, s_pc, s_exc, handle, order_type,
             header, urls, scanVars, warned, summary>>

VARIABLES
    \* ---- one call of parse_food_detail
    f_openable,     \* whether pdfplumber.open succeeds on the file
    f_tables,       \* pdf.pages[0].extract_tables(): tables of rows of cells
    f_pc,           \* position in parse_food_detail
    f_exc,          \* the exception in flight or propagated, "none" if none
    f_handle,       \* how often the document was opened and closed
    f_header,       \* local header: the dict of _parse_header
    f_row,          \* index in the table of the row the item loop is at
    f_items,        \* local items
    f_subtotal,     \* local subtotal
    f_result        \* <<>> for None (or nothing yet), <<FoodInvoice>>

foodVars == <<f_openable, f_tables, f_pc, f_exc, f_handle, f_header, f_row,
              f_items, f_subtotal, f_result>>

VARIABLES
    \* ---- one call of parse_instamart_detail
    im_openable,    \* whether pdfplumber.open succeeds on the file
    im_pages,       \* pdf.pages: extract_tables() of each page
    im_pc,          \* position in parse_instamart_detail
    im_exc,         \* the exception in flight or propagated, "none" if none
    im_handle,      \* how often the document was opened and closed
    im_header,      \* local header: the dict of _parse_seller_header
    im_row,         \* index in table1 of the row the item loop is at
    im_items,       \* local items
    im_invoice_value, \* local invoice_value
    im_result       \* <<>> for None (or nothing yet), <<InstamartInvoice>>

imVars == <<im_openable, im_pages, im_pc, im_exc, im_handle, im_header,
            im_row, im_items, im_invoice_value, im_result>>

detailVars == <<foodVars, imVars>>

VARIABLES
    \* ---- one call of upsert_food_order / upsert_instamart_order
    l_kind,         \* "food" | "instamart": which upsert is called
    l_inv,          \* the invoice passed: order_id, date_of_invoice, items,
                    \* handling_fee (<<>> for None)
    l_pc,           \* position in the upsert
    l_exc,          \* the exception propagated, "none" if none
    l_order_id,     \* local order_id = int(inv.order_id), as decimal digits
    l_item,         \* index of the item the insert loop is at
    l_log           \* the statements executed on the cursor, in order

loadVars == <<l_kind, l_inv, l_pc, l_exc, l_order_id, l_item, l_log>>

VARIABLES
    \* ---- one call of download_detail_pdfs
    d_orders,       \* the argument: OrderRow records (order_id, detail_url)
    d_disk,         \* out_dir: size of <order_id>.pdf, -1 if it is not there
    d_pc,           \* position in download_detail_pdfs
    d_exc,          \* the exception propagated, "none" if none
    d_i,            \* index of the order the loop is at
    d_results,      \* local results: the order ids mapped to their path
    d_skipped,      \* local counter
    d_downloaded,   \* local counter
    d_failed,       \* local counter
    d_requests      \* the URLs passed to client.get, in order

dlVars == <<d_orders, d_disk, d_pc, d_exc, d_i, d_results, d_skipped,
            d_downloaded, d_failed, d_requests>>

VARIABLES
    \* ---- one call of validate_summary_counts on the record of parse_summary
    v_counts        \* <<>> before the call, then <<[result, warned]>>

valVars == <<v_counts>>

VARIABLES
    \* ---- a caller that calls the extractors one after the other
    r_phase,        \* "first" | "other" | "second": which call is running
    r_active,       \* the extractor that is running
    r_call,         \* the first call: the extractor and its artifacts
    r_first,        \* <<>>, then <<what the first call ended with>>
    r_others        \* how many other calls ran between the two

repVars == <<r_phase, r_active, r_call, r_first, r_others>>

VARIABLES
    \* ---- the loop of load_food_orders over the orders of the summary
    m_orders,       \* the orders: what each step of the loop meets for them
    m_pc,           \* "idle" | "loop" | "committed" | "raised"
    m_i,            \* index of the order the loop is at
    m_loaded,       \* local counter
    m_failed        \* local counter

mainVars == <<m_orders, m_pc, m_i, m_loaded, m_failed>>

pipeVars == <<loadVars, dlVars, valVars, repVars, mainVars>>

vars == <<normVars, sumVars, detailVars, pipeVars>>

----------------------------------------------------------------------------
(* Characters and text                                                     *)

Rupee == "₹"

Digit == {"0", "1", "2", "3", "4", "5", "6", "7", "8", "9"}

\* str.strip() with no argument strips whitespace.
Whitespace == {" ", "\t", "\n"}

\* Python's None, where a text may be absent (an argument, a table cell).
None == <<"<None>">>

IsNone(t) == t = None

\* Python truthiness of an optional text: None and "" are falsy.
Truthy(t) == ~IsNone(t) /\ t # <<>>

DigitVal(c) ==
    CASE c = "0" -> 0 [] c = "1" -> 1 [] c = "2" -> 2 [] c = "3" -> 3
      [] c = "4" -> 4 [] c = "5" -> 5 [] c = "6" -> 6 [] c = "7" -> 7
      [] c = "8" -> 8 [] c = "9" -> 9

RECURSIVE LStrip(_)
LStrip(s) ==
    IF s # <<>> /\ Head(s) \in Whitespace THEN LStrip(Tail(s)) ELSE s

RECURSIVE RStripSet(_, _)
RStripSet(s, cs) ==
    IF s # <<>> /\ s[Len(s)] \in cs
    THEN RStripSet(SubSeq(s, 1, Len(s) - 1), cs)
    ELSE s

\* str.strip()
Strip(s) == RStripSet(LStrip(s), Whitespace)

\* str.rstrip("."): every trailing period goes, not only one.
RStripDots(s) == RStripSet(s, {"."})

\* str.replace(c, ""): every occurrence of the character is removed.
RemoveChar(s, c) == SelectSeq(s, LAMBDA x : x # c)

\* sub in s
Contains(s, sub) ==
    \E k \in 1..(Len(s) - Len(sub) + 1) : SubSeq(s, k, k + Len(sub) - 1) = sub

\* str.isdigit(): non-empty and every character a digit.
IsDigitStr(s) == s # <<>> /\ \A k \in 1..Len(s) : s[k] \in Digit

\* str.lower() on the letters the file names use.
LowerChar(c) ==
    CASE c = "F" -> "f" [] c = "O" -> "o" [] c = "D" -> "d" [] c = "I" -> "i"
      [] c = "N" -> "n" [] c = "S" -> "s" [] c = "T" -> "t" [] c = "A" -> "a"
      [] c = "M" -> "m" [] c = "R" -> "r" [] OTHER -> c

Lower(s) == [k \in 1..Len(s) |-> LowerChar(s[k])]

----------------------------------------------------------------------------
(* Numbers and float()                                                     *)

Zero == [m |-> 0, e |-> 0]

RECURSIVE Normalise(_)
Normalise(n) ==
    IF n.e > 0 /\ n.m % 10 = 0
    THEN Normalise([m |-> n.m \div 10, e |-> n.e - 1])
    ELSE n

RECURSIVE DigitsValue(_)
DigitsValue(ds) ==
    IF ds = <<>> THEN 0
    ELSE 10 * DigitsValue(SubSeq(ds, 1, Len(ds) - 1)) + DigitVal(ds[Len(ds)])

DotPositions(t) == {k \in 1..Len(t) : t[k] = "."}

\* float(s) over texts of digits, periods, separators, the currency glyph,
\* letters and whitespace: float() strips whitespace itself, then accepts
\* "12", "12.", "12.5" and ".5", and raises ValueError on anything else
\* ("", ".", "1.2.3", "1 2", "N/A").  ok = FALSE is the ValueError.
PyFloat(s) ==
    LET t    == Strip(s)
        dots == DotPositions(t)
        ds   == RemoveChar(t, ".")
        good == /\ \A k \in 1..Len(t) : t[k] \in Digit \cup {"."}
                /\ Cardinality(dots) <= 1
                /\ ds # <<>>
        frac == IF dots = {} THEN 0 ELSE Len(t) - (CHOOSE k \in dots : TRUE)
    IN  IF good
        THEN [ok |-> TRUE, val |-> Normalise([m |-> DigitsValue(ds), e |-> frac])]
        ELSE [ok |-> FALSE, val |-> Zero]

----------------------------------------------------------------------------
(* The three currency/number normalizers                                   *)

Returned(v) == [raised |-> "none", val |-> v]
Raised(x) == [raised |-> x, val |-> Zero]

\* summary_parser._parse_amount: no guard and no try; text.replace on None
\* raises AttributeError, float() on an unparsable text raises ValueError.
ParseAmount(text) ==
    IF IsNone(text) THEN Raised("AttributeError")
    ELSE LET cleaned == Strip(RemoveChar(RemoveChar(text, Rupee), ","))
             f       == PyFloat(cleaned)
         IN  IF f.ok THEN Returned(f.val) ELSE Raised("ValueError")

\* food_parser._parse_float
ParseFloat(val) ==
    IF ~Truthy(val) THEN Returned(Zero)
    ELSE LET cleaned == Strip(RemoveChar(RemoveChar(val, ","), Rupee))
             f       == PyFloat(cleaned)
         IN  IF f.ok THEN Returned(f.val) ELSE Returned(Zero)

\* instamart_parser._pf
Pf(val) ==
    IF ~Truthy(val) THEN Returned(Zero)
    ELSE LET cleaned == Strip(RemoveChar(RemoveChar(val, ","), Rupee))
             f       == PyFloat(cleaned)
         IN  IF f.ok THEN Returned(f.val) ELSE Returned(Zero)

----------------------------------------------------------------------------
(* summary_parser: patterns, order type, header, hyperlinks                *)

\* DATE_PATTERN = ^\d{2}-\d{2}-\d{4}$
MatchDate(s) ==
    /\ Len(s) = 10
    /\ \A k \in {1, 2, 4, 5, 7, 8, 9, 10} : s[k] \in Digit
    /\ s[3] = "-" /\ s[6] = "-"

\* ORDER_ID_PATTERN = ^\d{15}$
MatchOrderId(s) == Len(s) = 15 /\ \A k \in 1..15 : s[k] \in Digit

\* AMOUNT_PATTERN = ^₹[\d,.]+$
MatchAmount(s) ==
    /\ Len(s) >= 2
    /\ s[1] = Rupee
    /\ \A k \in 2..Len(s) : s[k] \in Digit \cup {",", "."}

FoodWord == <<"f", "o", "o", "d">>
InstamartWord == <<"i", "n", "s", "t", "a", "m", "a", "r", "t">>

\* A variant of _detect_order_type that tests "instamart" first.
DetectInstamartFirst(name) ==
    LET lower == Lower(name)
    IN  IF Contains(lower, InstamartWord)
        THEN [ok |-> TRUE, type |-> "instamart"]
        ELSE IF Contains(lower, FoodWord) THEN [ok |-> TRUE, type |-> "food"]
             ELSE [ok |-> FALSE, type |-> "none"]

\* _detect_order_type: "food" is tested first; [ok |-> FALSE] is the
\* ValueError "Cannot detect order type".
DetectOrderType(name) ==
    LET lower == Lower(name)
    IN  IF Contains(lower, FoodWord) THEN [ok |-> TRUE, type |-> "food"]
        ELSE IF Contains(lower, InstamartWord)
             THEN [ok |-> TRUE, type |-> "instamart"]
             ELSE [ok |-> FALSE, type |-> "none"]

\* int(s) over the modelled alphabet: int() strips whitespace, then wants
\* digits only.  ok = FALSE is the ValueError.
PyInt(s) ==
    LET t == Strip(s)
    IN  IF IsDigitStr(t) THEN [ok |-> TRUE, val |-> DigitsValue(t)]
        ELSE [ok |-> FALSE, val |-> 0]

CustomerNameLabel ==
    <<"C", "u", "s", "t", "o", "m", "e", "r", " ", "N", "a", "m", "e">>
EmailLabel == <<"E", "m", "a", "i", "l">>

\* The dict of _extract_header: a key group is either set or absent.
EmptyHeader ==
    [has_customer |-> FALSE, customer_name |-> <<>>, number_of_orders |-> 0,
     total_amount |-> Zero,
     has_email |-> FALSE, customer_email |-> <<>>, date_range |-> <<>>]

\* _extract_header reading the customer name one line too early.
RECURSIVE HeaderFromShifted(_, _, _)
HeaderFromShifted(lines, k, h) ==
    IF k > Len(lines) THEN [raised |-> "none", header |-> h]
    ELSE IF Strip(lines[k]) = CustomerNameLabel /\ k + 5 <= Len(lines)
    THEN LET n == PyInt(Strip(lines[k + 4]))
             a == ParseAmount(Strip(lines[k + 5]))
         IN  IF ~n.ok THEN [raised |-> "ValueError", header |-> h]
             ELSE IF a.raised # "none" THEN [raised |-> a.raised, header |-> h]
             ELSE HeaderFromShifted(lines, k + 1,
                             [h EXCEPT !.has_customer = TRUE,
                                       !.customer_name = Strip(lines[k + 2]),
                                       !.number_of_orders = n.val,
                                       !.total_amount = a.val])
    ELSE IF Strip(lines[k]) = EmailLabel /\ k + 3 <= Len(lines)
    THEN HeaderFromShifted(lines, k + 1,
                    [h EXCEPT !.has_email = TRUE,
                              !.customer_email = Strip(lines[k + 2]),
                              !.date_range = Strip(lines[k + 3])])
    ELSE HeaderFromShifted(lines, k + 1, h)

\* _extract_header, from line k on (1-based), with the dict h built so far.
\* int() and _parse_amount are not guarded: their ValueError leaves the
\* function.
RECURSIVE HeaderFrom(_, _, _)
HeaderFrom(lines, k, h) ==
    IF k > Len(lines) THEN [raised |-> "none", header |-> h]
    ELSE IF Strip(lines[k]) = CustomerNameLabel /\ k + 5 <= Len(lines)
    THEN LET n == PyInt(Strip(lines[k + 4]))
             a == ParseAmount(Strip(lines[k + 5]))
         IN  IF ~n.ok THEN [raised |-> "ValueError", header |-> h]
             ELSE IF a.raised # "none" THEN [raised |-> a.raised, header |-> h]
             ELSE HeaderFrom(lines, k + 1,
                             [h EXCEPT !.has_customer = TRUE,
                                       !.customer_name = Strip(lines[k + 3]),
                                       !.number_of_orders = n.val,
                                       !.total_amount = a.val])
    ELSE IF Strip(lines[k]) = EmailLabel /\ k + 3 <= Len(lines)
    THEN HeaderFrom(lines, k + 1,
                    [h EXCEPT !.has_email = TRUE,
                              !.customer_email = Strip(lines[k + 2]),
                              !.date_range = Strip(lines[k + 3])])
    ELSE HeaderFrom(lines, k + 1, h)

ExtractHeader(lines) == HeaderFrom(lines, 1, EmptyHeader)

\* _extract_urls: the uri of every link that has one, in order.
ExtractUrls(ls) ==
    LET with == SelectSeq(ls, LAMBDA l : l.has_uri)
    IN  [k \in 1..Len(with) |-> with[k].uri]

----------------------------------------------------------------------------
(* summary_parser._extract_order_rows, one loop iteration per action       *)

ViewMarker == <<"V", "i", "e", "w">>

Lines == doc[page]

\* lines[i].strip()
Line(k) == Strip(Lines[k])

\* " ".join(parts)
RECURSIVE Join(_)
Join(parts) ==
    IF parts = <<>> THEN <<>>
    ELSE IF Len(parts) = 1 THEN parts[1]
    ELSE parts[1] \o <<" ">> \o Join(Tail(parts))

\* The index after the amount line at k: one "View" line is skipped.
AfterAmount(k) ==
    IF k + 1 <= Len(Lines) /\ Line(k + 1) = ViewMarker THEN k + 2 ELSE k + 1

\* The else branch of the order-id test: i was already moved past the date
\* line, and is moved once more.
\* As AfterLoneDate, the index staying on the date line.
AfterLoneDateStuck(k) == k

AfterLoneDate(k) == k + 2

NewRow(d, o, parts, a) ==
    [date |-> d, order_id |-> o, name |-> Join(parts), amount |-> a]

OtherThanScan ==
    <<normVars, pipeVars, detailVars, file_name, openable, doc, links, handle, order_type, header,
      urls, warned, summary>>

\* _extract_order_rows on the lines of one page, as a function of the lines:
\* the outer loop from line k on, rs being the rows found so far.  The
\* value is the rows, or the exception that _parse_amount raised.
RECURSIVE RowsFrom(_, _, _), NameLoopFrom(_, _, _, _, _, _)
RowsFrom(L, k, rs) ==
    IF k > Len(L) THEN [exc |-> "none", rows |-> rs]
    ELSE IF ~MatchDate(Strip(L[k])) THEN RowsFrom(L, k + 1, rs)
    ELSE IF k + 1 <= Len(L) /\ MatchOrderId(Strip(L[k + 1]))
    THEN NameLoopFrom(L, k + 2, Strip(L[k]), Strip(L[k + 1]), <<>>, rs)
    ELSE RowsFrom(L, k + 2, rs)

\* The name loop from line k on, for the date d and the order id o.
NameLoopFrom(L, k, d, o, parts, rs) ==
    IF k > Len(L) THEN [exc |-> "none", rows |-> rs]
    ELSE IF ~MatchAmount(Strip(L[k]))
    THEN NameLoopFrom(L, k + 1, d, o, Append(parts, Strip(L[k])), rs)
    ELSE IF ParseAmount(Strip(L[k])).raised # "none"
    THEN [exc |-> ParseAmount(Strip(L[k])).raised, rows |-> <<>>]
    ELSE RowsFrom(L,
             IF k + 1 <= Len(L) /\ Strip(L[k + 1]) = ViewMarker
             THEN k + 2 ELSE k + 1,
             Append(rs, NewRow(d, o, parts, ParseAmount(Strip(L[k])).val)))

\* while i < len(lines): the line is no date line.
ScanSkipLine ==
    /\ s_pc = "scan" /\ i <= Len(Lines)
    /\ ~MatchDate(Line(i))
    /\ i' = i + 1
    /\ UNCHANGED <<OtherThanScan, s_pc, s_exc, page, date, order_id,
                   name_parts, rows>>

\* A date line that no order-id line follows.
ScanLoneDate ==
    /\ s_pc = "scan" /\ i <= Len(Lines)
    /\ MatchDate(Line(i))
    /\ ~(i + 1 <= Len(Lines) /\ MatchOrderId(Line(i + 1)))
    /\ date' = Line(i)
    /\ i' = AfterLoneDate(i)
    /\ UNCHANGED <<OtherThanScan, s_pc, s_exc, page, order_id, name_parts, rows>>

\* A date line and the order-id line after it: the name loop begins.
ScanDateOrderId ==
    /\ s_pc = "scan" /\ i <= Len(Lines)
    /\ MatchDate(Line(i))
    /\ i + 1 <= Len(Lines) /\ MatchOrderId(Line(i + 1))
    /\ date' = Line(i)
    /\ order_id' = Line(i + 1)
    /\ name_parts' = <<>>
    /\ i' = i + 2
    /\ s_pc' = "name"
    /\ UNCHANGED <<OtherThanScan, s_exc, page, rows>>

\* The name loop: a line that is no amount joins the name.
ScanNameLine ==
    /\ s_pc = "name" /\ i <= Len(Lines)
    /\ ~MatchAmount(Line(i))
    /\ name_parts' = Append(name_parts, Line(i))
    /\ i' = i + 1
    /\ UNCHANGED <<OtherThanScan, s_pc, s_exc, page, date, order_id, rows>>

\* The name loop: an amount line that parses ends the row.
ScanAmountLine ==
    /\ s_pc = "name" /\ i <= Len(Lines)
    /\ MatchAmount(Line(i))
    /\ ParseAmount(Line(i)).raised = "none"
    /\ rows' = Append(rows, NewRow(date, order_id, name_parts,
                                   ParseAmount(Line(i)).val))
    /\ i' = AfterAmount(i)
    /\ s_pc' = "scan"
    /\ UNCHANGED <<OtherThanScan, s_exc, page, date, order_id, name_parts>>

\* The name loop: _parse_amount raises on the amount line; the exception
\* leaves _extract_order_rows and reaches the finally of parse_summary.
ScanAmountRaises ==
    /\ s_pc = "name" /\ i <= Len(Lines)
    /\ MatchAmount(Line(i))
    /\ ParseAmount(Line(i)).raised # "none"
    /\ s_exc' = ParseAmount(Line(i)).raised
    /\ s_pc' = "finally"
    /\ UNCHANGED <<OtherThanScan, scanVars>>

\* The name loop runs off the page: no row, back to the outer loop test.
ScanNameExhausted ==
    /\ s_pc = "name" /\ i > Len(Lines)
    /\ s_pc' = "scan"
    /\ UNCHANGED <<OtherThanScan, s_exc, scanVars>>

\* for page in doc: the next page starts at its first line.
ScanNextPage ==
    /\ s_pc = "scan" /\ i > Len(Lines)
    /\ page < Len(doc)
    /\ page' = page + 1
    /\ i' = 1
    /\ UNCHANGED <<OtherThanScan, s_pc, s_exc, date, order_id, name_parts, rows>>

\* return rows
ScanReturn ==
    /\ s_pc = "scan" /\ i > Len(Lines)
    /\ page = Len(doc)
    /\ s_pc' = "build"
    /\ UNCHANGED <<OtherThanScan, s_exc, scanVars>>

NextScan ==
    \/ ScanSkipLine
    \/ ScanLoneDate
    \/ ScanDateOrderId
    \/ ScanNameLine
    \/ ScanAmountLine
    \/ ScanAmountRaises
    \/ ScanNameExhausted
    \/ ScanNextPage
    \/ ScanReturn

----------------------------------------------------------------------------
(* summary_parser.parse_summary                                            *)

\* A variant of the OrderRow loop that zips rows with urls and so stops at
\* the shorter list.
BuildOrdersZipped(rs, us) ==
    [k \in 1..(IF Len(us) < Len(rs) THEN Len(us) ELSE Len(rs)) |->
        [date |-> rs[k].date, order_id |-> rs[k].order_id, name |-> rs[k].name,
         amount |-> rs[k].amount, detail_url |-> us[k]]]

\* The loop building the OrderRow list: the k-th row gets the k-th url.
BuildOrders(rs, us) ==
    [k \in 1..Len(rs) |->
        [date |-> rs[k].date, order_id |-> rs[k].order_id, name |-> rs[k].name,
         amount |-> rs[k].amount,
         detail_url |-> IF k <= Len(us) THEN us[k] ELSE <<>>]]

\* SummaryData(...) with the declared count set to the number of rows.
BuildSummaryCountingRows(type, h, os) ==
    [order_type |-> type,
     customer_name |-> h.customer_name,
     customer_email |-> h.customer_email,
     number_of_orders |-> Len(os),
     total_amount |-> h.total_amount,
     date_range |-> h.date_range,
     orders |-> os]

\* SummaryData(...), with header.get(key, default)
BuildSummary(type, h, os) ==
    [order_type |-> type,
     customer_name |-> h.customer_name,
     customer_email |-> h.customer_email,
     number_of_orders |-> h.number_of_orders,
     total_amount |-> h.total_amount,
     date_range |-> h.date_range,
     orders |-> os]

\* order_type = _detect_order_type(file_path), a type is found
Detect ==
    /\ s_pc = "detect"
    /\ DetectOrderType(file_name).ok
    /\ order_type' = DetectOrderType(file_name).type
    /\ s_pc' = "open"
    /\ UNCHANGED <<normVars, pipeVars, detailVars, file_name, openable, doc, links, s_exc, handle,
                   header, urls, scanVars, warned, summary>>

\* _detect_order_type raises ValueError: parse_summary is left at once.
DetectRaises ==
    /\ s_pc = "detect"
    /\ ~DetectOrderType(file_name).ok
    /\ s_exc' = "ValueError"
    /\ s_pc' = "raised"
    /\ UNCHANGED <<normVars, pipeVars, detailVars, file_name, openable, doc, links, handle,
                   order_type, header, urls, scanVars, warned, summary>>

\* doc = fitz.open(...)
Open ==
    /\ s_pc = "open"
    /\ openable
    /\ handle' = [handle EXCEPT !.opened = @ + 1]
    /\ s_pc' = "header"
    /\ UNCHANGED <<normVars, pipeVars, detailVars, file_name, openable, doc, links, s_exc,
                   order_type, header, urls, scanVars, warned, summary>>

\* fitz.open raises: the call is outside the try, the exception propagates.
OpenRaises ==
    /\ s_pc = "open"
    /\ ~openable
    /\ s_exc' = "OpenError"
    /\ s_pc' = "raised"
    /\ UNCHANGED <<normVars, pipeVars, detailVars, file_name, openable, doc, links, handle,
                   order_type, header, urls, scanVars, warned, summary>>

\* header = _extract_header(doc[0].get_text().split("\n"))
Header ==
    /\ s_pc = "header"
    /\ ExtractHeader(doc[1]).raised = "none"
    /\ header' = ExtractHeader(doc[1]).header
    /\ s_pc' = "urls"
    /\ UNCHANGED <<normVars, pipeVars, detailVars, file_name, openable, doc, links, s_exc, handle,
                   order_type, urls, scanVars, warned, summary>>

HeaderRaises ==
    /\ s_pc = "header"
    /\ ExtractHeader(doc[1]).raised # "none"
    /\ s_exc' = ExtractHeader(doc[1]).raised
    /\ s_pc' = "finally"
    /\ UNCHANGED <<normVars, pipeVars, detailVars, file_name, openable, doc, links, handle,
                   order_type, header, urls, scanVars, warned, summary>>

\* The same step with a row list that outlives the call: rows is not
\* emptied on entry.
UrlsKeepingRows ==
    /\ s_pc = "urls"
    /\ urls' = ExtractUrls(links)
    /\ page' = 1
    /\ i' = 1
    /\ s_pc' = "scan"
    /\ UNCHANGED <<normVars, pipeVars, detailVars, file_name, openable, doc,
                   links, s_exc, handle, order_type, header, date, order_id,
                   name_parts, rows, warned, summary>>

\* urls = _extract_urls(doc); then _extract_order_rows(doc) is entered:
\* rows = [], the first page, its first line.
Urls ==
    /\ s_pc = "urls"
    /\ urls' = ExtractUrls(links)
    /\ rows' = <<>>
    /\ page' = 1
    /\ i' = 1
    /\ s_pc' = "scan"
    /\ UNCHANGED <<normVars, pipeVars, detailVars, file_name, openable, doc,
                   links, s_exc, handle, order_type, header, date, order_id,
                   name_parts, warned, summary>>

\* The warning, the OrderRow list and the return of SummaryData.
Build ==
    /\ s_pc = "build"
    /\ warned' = (Len(urls) # Len(rows))
    /\ summary' = <<BuildSummary(order_type, header, BuildOrders(rows, urls))>>
    /\ s_pc' = "finally"
    /\ UNCHANGED <<normVars, pipeVars, detailVars, file_name, openable, doc, links, s_exc, handle,
                   order_type, header, urls, scanVars>>

\* finally: doc.close(); then the return value or the exception goes out.
Close ==
    /\ s_pc = "finally"
    /\ handle' = [handle EXCEPT !.closed = @ + 1]
    /\ s_pc' = IF s_exc = "none" THEN "returned" ELSE "raised"
    /\ UNCHANGED <<normVars, pipeVars, detailVars, file_name, openable, doc, links, s_exc,
                   order_type, header, urls, scanVars, warned, summary>>

NextSummary ==
    \/ Detect
    \/ DetectRaises
    \/ Open
    \/ OpenRaises
    \/ Header
    \/ HeaderRaises
    \/ Urls
    \/ NextScan
    \/ Build
    \/ Close

----------------------------------------------------------------------------
(* Detail extractors: table cells and the patterns searched in them        *)

\* row[k] of the source, whose indices start at 0.
Cell(row, k) == row[k + 1]

\* row[-1]
LastCell(row) == row[Len(row)]

\* (cell or "")
OrEmpty(cell) == IF Truthy(cell) THEN cell ELSE <<>>

\* (cell or "").strip()  and  cell.strip() if cell else ""
StripOrEmpty(cell) == IF Truthy(cell) THEN Strip(cell) ELSE <<>>

\* row[0] and row[0].strip().rstrip(".").isdigit()
IsSerial(cell) == Truthy(cell) /\ IsDigitStr(RStripDots(Strip(cell)))

\* int(row[0].strip().rstrip(".")) of a serial cell
SerialOf(cell) == DigitsValue(RStripDots(Strip(cell)))

\* int(cell.strip()) if cell else 0; ok = FALSE is the ValueError of int().
QuantityOf(cell) ==
    IF Truthy(cell) THEN PyInt(Strip(cell)) ELSE [ok |-> TRUE, val |-> 0]

\* The character classes of the patterns: \d, \S, [\d.] and [\d,.].
InClass(c, cls) ==
    CASE cls = "d"    -> c \in Digit
      [] cls = "S"    -> c \notin Whitespace
      [] cls = "rate" -> c \in Digit \cup {"."}
      [] cls = "amt"  -> c \in Digit \cup {",", "."}

\* The last index of the longest run of class characters that starts at p
\* (p - 1 when there is none): a greedy cls+.
RECURSIVE RunEnd(_, _, _)
RunEnd(t, p, cls) ==
    IF p <= Len(t) /\ InClass(t[p], cls) THEN RunEnd(t, p + 1, cls) ELSE p - 1

\* The first index at or after p that holds no whitespace: a greedy \s*.
RECURSIVE SkipSpace(_, _)
SkipSpace(t, p) ==
    IF p <= Len(t) /\ t[p] \in Whitespace THEN SkipSpace(t, p + 1) ELSE p

LabelAt(t, label, p) ==
    /\ p + Len(label) - 1 <= Len(t)
    /\ SubSeq(t, p, p + Len(label) - 1) = label

Least(S) == CHOOSE k \in S : \A j \in S : k <= j

NoMatch == [found |-> FALSE, group |-> <<>>, second |-> <<>>]

\* re.search(label + "\s*(cls+)", t), or "\s+" when minws = 1: group 1 of
\* the leftmost match.  No class holds whitespace, so the greedy parts
\* never give characters back.
SearchGroup(t, label, minws, cls) ==
    LET from(p)  == SkipSpace(t, p + Len(label))
        starts   == {p \in 1..Len(t) :
                        /\ LabelAt(t, label, p)
                        /\ from(p) - (p + Len(label)) >= minws
                        /\ RunEnd(t, from(p), cls) >= from(p)}
    IN  IF starts = {} THEN NoMatch
        ELSE LET q == from(Least(starts))
             IN  [found |-> TRUE, group |-> SubSeq(t, q, RunEnd(t, q, cls)),
                  second |-> <<>>]

\* re.search(label + "\s+([\d.]+)%\s+([\d,.]+)", t): groups 1 and 2 of the
\* leftmost match.
SearchRate(t, label) ==
    LET q1(p)  == SkipSpace(t, p + Len(label))
        e1(p)  == RunEnd(t, q1(p), "rate")
        q2(p)  == SkipSpace(t, e1(p) + 2)
        e2(p)  == RunEnd(t, q2(p), "amt")
        starts == {p \in 1..Len(t) :
                      /\ LabelAt(t, label, p)
                      /\ q1(p) > p + Len(label)
                      /\ e1(p) >= q1(p)
                      /\ e1(p) + 1 <= Len(t) /\ t[e1(p) + 1] = "%"
                      /\ q2(p) > e1(p) + 2
                      /\ e2(p) >= q2(p)}
    IN  IF starts = {} THEN NoMatch
        ELSE LET p == Least(starts)
             IN  [found |-> TRUE, group |-> SubSeq(t, q1(p), e1(p)),
                  second |-> SubSeq(t, q2(p), e2(p))]

\* m.group(1).strip() if m else default
GroupOr(m, default) == IF m.found THEN Strip(m.group) ELSE default

\* " ".join(s.split())
RECURSIVE SplitJoin(_)
SplitJoin(s) ==
    LET t == LStrip(s)
    IN  IF t = <<>> THEN <<>>
        ELSE LET e    == RunEnd(t, 1, "S")
                 rest == SplitJoin(SubSeq(t, e + 1, Len(t)))
             IN  SubSeq(t, 1,
                 e) \o (IF rest = <<>> THEN <<>> ELSE <<" ">> \o rest)

\* next((r for r in table if r[0] and all words in r[0]), None): the rows
\* are visited in order and r[0] of an empty row raises IndexError.
FindRow(table, words) ==
    LET hits    == {k \in 1..Len(table) :
                       /\ Len(table[k]) > 0
                       /\ Truthy(table[k][1])
                       /\ \A w \in words : Contains(table[k][1], w)}
        empties == {k \in 1..Len(table) : Len(table[k]) = 0}
        first(S) == IF S = {} THEN Len(table) + 1 ELSE Least(S)
    IN  IF first(empties) < first(hits)
        THEN [raised |-> "IndexError", found |-> FALSE, text |-> <<>>]
        ELSE IF hits = {}
             THEN [raised |-> "none", found |-> FALSE, text |-> <<>>]
             ELSE [raised |-> "none", found |-> TRUE,
                   text |-> table[Least(hits)][1]]

\* The literal texts of the patterns and tests of the two detail parsers.
Label ==
    [order_id |->
         <<"O", "r", "d", "e", "r", " ", "I", "D", ":">>,
     invoice_no |->
         <<"I", "n", "v", "o", "i", "c", "e", " ", "N", "o", ":">>,
     document |->
         <<"D", "o", "c", "u", "m", "e", "n", "t", ":">>,
     hsn_code |->
         <<"H", "S", "N", " ", "C", "o", "d", "e", ":">>,
     inv |->
         <<"I", "N", "V">>,
     taxes |->
         <<"T", "a", "x", "e", "s">>,
     igst |->
         <<"I", "G", "S", "T">>,
     cgst |->
         <<"C", "G", "S", "T">>,
     sgst |->
         <<"S", "G", "S", "T", "/", "U", "T", "G", "S", "T">>,
     state_cess |->
         <<"S", "t", "a", "t", "e", " ", "C", "E", "S", "S">>,
     total_taxes |->
         <<"T", "o", "t", "a", "l", " ", "t", "a", "x", "e", "s">>,
     invoice_total |->
         <<"I", "n", "v", "o", "i", "c", "e", " ", "T", "o", "t", "a", "l">>,
     eco |->
         <<"E", "C", "O", " ", "u", "n", "d", "e", "r", " ", "G", "S", "T">>,
     gstin |->
         <<"G", "S", "T", "I", "N", ":">>,
     subtotal |->
         <<"S", "u", "b", "t", "o", "t", "a", "l">>,
     invoice_value |->
         <<"I", "n", "v", "o", "i", "c", "e", " ", "V", "a", "l", "u", "e">>,
     amount_in_words |->
         <<"A", "m", "o", "u", "n", "t", " ", "i", "n", " ", "w", "o", "r", "d", "s">>,
     handling_fees_for |->
         <<"H", "a", "n", "d", "l", "i", "n", "g", " ", "F", "e", "e", "s", " ", "f", "o", "r", " ", "O", "r", "d", "e", "r", " ">>]

----------------------------------------------------------------------------
(* food_parser: header, tax block, ECO block, item rows                    *)

\* _parse_header: the fields the record of the model keeps.
ParseHeader(t) ==
    [order_id      |-> GroupOr(SearchGroup(t, Label.order_id, 0, "d"), <<>>),
     document_type |-> GroupOr(SearchGroup(t, Label.document, 0, "S"),
                               Label.inv),
     invoice_no    |-> GroupOr(SearchGroup(t, Label.invoice_no, 0, "S"), <<>>),
     hsn_code      |-> GroupOr(SearchGroup(t, Label.hsn_code, 0, "d"), <<>>)]

\* float(m.group(1)) of a rate that was found; found = FALSE leaves the
\* default in place.
RateOf(m) == IF m.found THEN PyFloat(m.group) ELSE [ok |-> TRUE, val |-> Zero]

NoFoodTaxes ==
    [igst_rate |-> Zero, igst_amount |-> Zero,
     cgst_rate |-> Zero, cgst_amount |-> Zero,
     sgst_rate |-> Zero, sgst_amount |-> Zero,
     total_taxes |-> Zero, invoice_total |-> Zero]

\* _parse_tax_block: float() of a rate is unguarded and raises ValueError.
ParseTaxBlock(t) ==
    LET igst  == SearchRate(t, Label.igst)
        cgst  == SearchRate(t, Label.cgst)
        sgst  == SearchRate(t, Label.sgst)
        total == SearchGroup(t, Label.total_taxes, 1, "amt")
        inv   == SearchGroup(t, Label.invoice_total, 1, "amt")
        amt(m) == IF m.found THEN ParseFloat(m.second).val ELSE Zero
        one(m) == IF m.found THEN ParseFloat(m.group).val ELSE Zero
    IN  IF ~RateOf(igst).ok \/ ~RateOf(cgst).ok \/ ~RateOf(sgst).ok
        THEN [raised |-> "ValueError", val |-> NoFoodTaxes]
        ELSE [raised |-> "none",
              val |-> [igst_rate |-> RateOf(igst).val,
                  igst_amount |-> amt(igst),
                       cgst_rate |-> RateOf(cgst).val,
                           cgst_amount |-> amt(cgst),
                       sgst_rate |-> RateOf(sgst).val,
                           sgst_amount |-> amt(sgst),
                       total_taxes |-> one(total),
                       invoice_total |-> one(inv)]]

\* _parse_eco_block: the field the record of the model keeps.
ParseEcoBlock(t) ==
    [eco_gstin |-> GroupOr(SearchGroup(t, Label.gstin, 0, "S"), <<>>)]

\* A variant of the loop turn that knows the Subtotal row by its second
\* cell only.
FoodRowKindSecondCellOnly(row) ==
    IF Len(row) < 2 THEN "IndexError"
    ELSE IF Truthy(Cell(row, 1)) /\ Strip(Cell(row, 1)) = Label.subtotal
         THEN "subtotal"
    ELSE IF IsSerial(Cell(row, 0))
         THEN IF Len(row) < 8 THEN "IndexError"
              ELSE IF ~QuantityOf(Cell(row, 3)).ok THEN "ValueError"
              ELSE "item"
    ELSE "other"

\* A variant of the loop turn that takes a Subtotal row for any other row
\* and goes on.
FoodRowKindNoBreak(row) ==
    IF Len(row) < 2 THEN "IndexError"
    ELSE IF IsSerial(Cell(row, 0))
         THEN IF Len(row) < 8 THEN "IndexError"
              ELSE IF ~QuantityOf(Cell(row, 3)).ok THEN "ValueError"
              ELSE "item"
    ELSE "other"

\* One turn of the loop "for row in table[4:]": what the row makes the loop
\* do.  row[1] is read first; the cells of an item row are read before the
\* quantity is converted.
FoodRowKind(row) ==
    IF Len(row) < 2 THEN "IndexError"
    ELSE IF Truthy(Cell(row, 1)) /\ Strip(Cell(row, 1)) = Label.subtotal
         THEN "subtotal"
    ELSE IF Truthy(Cell(row, 0)) /\ Contains(Cell(row, 0), Label.subtotal)
         THEN "subtotal"
    ELSE IF IsSerial(Cell(row, 0))
         THEN IF Len(row) < 8 THEN "IndexError"
              ELSE IF ~QuantityOf(Cell(row, 3)).ok THEN "ValueError"
              ELSE "item"
    ELSE "other"

\* The FoodItem of an item row: 9 columns (with a spacer) or 8.
FoodItemOf(row) ==
    LET o == IF Len(row) >= 9 THEN 1 ELSE 0
    IN  [sr_no                |-> SerialOf(Cell(row, 0)),
         description          |-> StripOrEmpty(Cell(row, 1)),
         unit_of_measure      |-> StripOrEmpty(Cell(row, 2)),
         quantity             |-> QuantityOf(Cell(row, 3)).val,
         unit_price           |-> ParseFloat(Cell(row, 4 + o)).val,
         amount               |-> ParseFloat(Cell(row, 5 + o)).val,
         discount             |-> ParseFloat(Cell(row, 6 + o)).val,
         net_assessable_value |-> ParseFloat(Cell(row, 7 + o)).val]

\* The tax row and the ECO row of the table and what is parsed from them;
\* "else {}" leaves every field at its default.
FoodBlocks(table) ==
    LET tax_row == FindRow(table, {Label.taxes, Label.cgst})
        taxes   == IF tax_row.found THEN ParseTaxBlock(tax_row.text)
                   ELSE [raised |-> "none", val |-> NoFoodTaxes]
        eco_row == FindRow(table, {Label.eco})
        eco     == IF eco_row.found THEN ParseEcoBlock(eco_row.text)
                   ELSE [eco_gstin |-> <<>>]
    IN  IF tax_row.raised # "none"
        THEN [raised |-> tax_row.raised, taxes |-> NoFoodTaxes, eco |-> eco]
        ELSE IF taxes.raised # "none"
        THEN [raised |-> taxes.raised, taxes |-> NoFoodTaxes, eco |-> eco]
        ELSE IF eco_row.raised # "none"
        THEN [raised |-> eco_row.raised, taxes |-> NoFoodTaxes, eco |-> eco]
        ELSE [raised |-> "none", taxes |-> taxes.val, eco |-> eco]

FoodInvoice(h, subtotal, taxes, eco, items) ==
    [order_id      |-> h.order_id,
     invoice_no    |-> h.invoice_no,
     document_type |-> h.document_type,
     hsn_code      |-> h.hsn_code,
     subtotal      |-> subtotal,
     taxes         |-> taxes,
     eco_gstin     |-> eco.eco_gstin,
     items         |-> items]

EmptyDetailHeader ==
    [order_id |-> <<>>, document_type |-> <<>>, invoice_no |-> <<>>,
     hsn_code |-> <<>>]

\* The minimum row count of the table shape check.
MinFoodRows == 8

FTable == f_tables[1]

FRow == FTable[f_row]

\* pdf = pdfplumber.open(...)
FOpen ==
    /\ f_pc = "open" /\ f_openable
    /\ f_handle' = [f_handle EXCEPT !.opened = @ + 1]
    /\ f_pc' = "shape"
    /\ UNCHANGED <<normVars, pipeVars, sumVars, imVars, f_openable, f_tables, f_exc,
                   f_header, f_row, f_items, f_subtotal, f_result>>

\* except Exception: print, return None
FOpenFails ==
    /\ f_pc = "open" /\ ~f_openable
    /\ f_result' = <<>>
    /\ f_pc' = "returned"
    /\ UNCHANGED <<normVars, pipeVars, sumVars, imVars, f_openable, f_tables, f_exc,
                   f_handle, f_header, f_row, f_items, f_subtotal>>

\* A shape check without the row count: any table passes.
FShapeAnyTable == f_tables # <<>>

FShapeOk == f_tables # <<>> /\ Len(FTable) >= MinFoodRows

\* The early return as it would be outside the try: nothing closes the file.
FShapeFailsLeaving ==
    /\ f_pc = "shape" /\ ~FShapeOk
    /\ f_result' = <<>>
    /\ f_pc' = "returned"
    /\ UNCHANGED <<normVars, pipeVars, sumVars, imVars, f_openable, f_tables, f_exc,
                   f_handle, f_header, f_row, f_items, f_subtotal>>

\* if not tables or len(tables[0]) < 8: print, return None
FShapeFails ==
    /\ f_pc = "shape" /\ ~FShapeOk
    /\ f_result' = <<>>
    /\ f_pc' = "finally"
    /\ UNCHANGED <<normVars, pipeVars, sumVars, imVars, f_openable, f_tables, f_exc,
                   f_handle, f_header, f_row, f_items, f_subtotal>>

\* header_text = table[2][0] or ""; header = _parse_header(header_text);
\* items = []; subtotal = 0.0
FHeader ==
    /\ f_pc = "shape" /\ FShapeOk /\ Len(FTable[3]) > 0
    /\ f_header' = ParseHeader(OrEmpty(Cell(FTable[3], 0)))
    /\ f_items' = <<>>
    /\ f_subtotal' = Zero
    /\ f_row' = 5
    /\ f_pc' = "items"
    /\ UNCHANGED <<normVars, pipeVars, sumVars, imVars, f_openable, f_tables, f_exc,
                   f_handle, f_result>>

\* table[2][0] of an empty row
FHeaderRaises ==
    /\ f_pc = "shape" /\ FShapeOk /\ Len(FTable[3]) = 0
    /\ f_exc' = "IndexError"
    /\ f_pc' = "finally"
    /\ UNCHANGED <<normVars, pipeVars, sumVars, imVars, f_openable, f_tables, f_handle,
                   f_header, f_row, f_items, f_subtotal, f_result>>

FRowRaises ==
    /\ f_pc = "items" /\ f_row <= Len(FTable)
    /\ FoodRowKind(FRow) \in {"IndexError", "ValueError"}
    /\ f_exc' = FoodRowKind(FRow)
    /\ f_pc' = "finally"
    /\ UNCHANGED <<normVars, pipeVars, sumVars, imVars, f_openable, f_tables, f_handle,
                   f_header, f_row, f_items, f_subtotal, f_result>>

\* subtotal = _parse_float(row[-1]); break
FRowSubtotal ==
    /\ f_pc = "items" /\ f_row <= Len(FTable)
    /\ FoodRowKind(FRow) = "subtotal"
    /\ f_subtotal' = ParseFloat(LastCell(FRow)).val
    /\ f_pc' = "blocks"
    /\ UNCHANGED <<normVars, pipeVars, sumVars, imVars, f_openable, f_tables, f_exc,
                   f_handle, f_header, f_row, f_items, f_result>>

\* items.append(FoodItem(...))
FRowItem ==
    /\ f_pc = "items" /\ f_row <= Len(FTable)
    /\ FoodRowKind(FRow) = "item"
    /\ f_items' = Append(f_items, FoodItemOf(FRow))
    /\ f_row' = f_row + 1
    /\ UNCHANGED <<normVars, pipeVars, sumVars, imVars, f_openable, f_tables, f_pc,
                   f_exc, f_handle, f_header, f_subtotal, f_result>>

FRowOther ==
    /\ f_pc = "items" /\ f_row <= Len(FTable)
    /\ FoodRowKind(FRow) = "other"
    /\ f_row' = f_row + 1
    /\ UNCHANGED <<normVars, pipeVars, sumVars, imVars, f_openable, f_tables, f_pc,
                   f_exc, f_handle, f_header, f_items, f_subtotal, f_result>>

\* the loop ran off the table
FRowsDone ==
    /\ f_pc = "items" /\ f_row > Len(FTable)
    /\ f_pc' = "blocks"
    /\ UNCHANGED <<normVars, pipeVars, sumVars, imVars, f_openable, f_tables, f_exc,
                   f_handle, f_header, f_row, f_items, f_subtotal, f_result>>

\* tax block, ECO block, return FoodInvoice(...)
FBuild ==
    /\ f_pc = "blocks" /\ FoodBlocks(FTable).raised = "none"
    /\ f_result' = <<FoodInvoice(f_header, f_subtotal,
        FoodBlocks(FTable).taxes,
                                 FoodBlocks(FTable).eco, f_items)>>
    /\ f_pc' = "finally"
    /\ UNCHANGED <<normVars, pipeVars, sumVars, imVars, f_openable, f_tables, f_exc,
                   f_handle, f_header, f_row, f_items, f_subtotal>>

FBuildRaises ==
    /\ f_pc = "blocks" /\ FoodBlocks(FTable).raised # "none"
    /\ f_exc' = FoodBlocks(FTable).raised
    /\ f_pc' = "finally"
    /\ UNCHANGED <<normVars, pipeVars, sumVars, imVars, f_openable, f_tables, f_handle,
                   f_header, f_row, f_items, f_subtotal, f_result>>

\* finally: pdf.close()
FClose ==
    /\ f_pc = "finally"
    /\ f_handle' = [f_handle EXCEPT !.closed = @ + 1]
    /\ f_pc' = IF f_exc = "none" THEN "returned" ELSE "raised"
    /\ UNCHANGED <<normVars, pipeVars, sumVars, imVars, f_openable, f_tables, f_exc,
                   f_header, f_row, f_items, f_subtotal, f_result>>

NextFood ==
    \/ FOpen
    \/ FOpenFails
    \/ FShapeFails
    \/ FHeader
    \/ FHeaderRaises
    \/ FRowRaises
    \/ FRowSubtotal
    \/ FRowItem
    \/ FRowOther
    \/ FRowsDone
    \/ FBuild
    \/ FBuildRaises
    \/ FClose

----------------------------------------------------------------------------
(* instamart_parser: headers, tax block, item rows, handling fee           *)

\* _parse_seller_header: the fields the record of the model keeps.
ParseSellerHeader(t) ==
    [order_id      |-> GroupOr(SearchGroup(t, Label.order_id, 0, "d"), <<>>),
     document_type |-> GroupOr(SearchGroup(t, Label.document, 0, "S"),
                               Label.inv),
     invoice_no    |-> GroupOr(SearchGroup(t, Label.invoice_no, 0, "S"), <<>>),
     hsn_code      |-> <<>>]

\* _parse_handling_header: the field the record of the model keeps.
ParseHandlingHeader(t) ==
    [invoice_no |-> GroupOr(SearchGroup(t, Label.invoice_no, 0, "S"), <<>>)]

\* h_taxes = {}: every field read with .get(key, 0.0)
NoTaxes ==
    [cgst_rate |-> Zero, cgst_amount |-> Zero,
     sgst_rate |-> Zero, sgst_amount |-> Zero,
     state_cess_rate |-> Zero, state_cess_amount |-> Zero,
     total_taxes |-> Zero, invoice_total |-> Zero]

\* _parse_handling_tax: float() of a rate is unguarded and raises
\* ValueError; a field that is not found is read as 0.0 by the caller.
ParseHandlingTax(t) ==
    LET cgst  == SearchRate(t, Label.cgst)
        sgst  == SearchRate(t, Label.sgst)
        cess  == SearchRate(t, Label.state_cess)
        total == SearchGroup(t, Label.total_taxes, 1, "amt")
        inv   == SearchGroup(t, Label.invoice_total, 1, "amt")
        amt(m) == IF m.found THEN Pf(m.second).val ELSE Zero
        one(m) == IF m.found THEN Pf(m.group).val ELSE Zero
    IN  IF ~RateOf(cgst).ok \/ ~RateOf(sgst).ok \/ ~RateOf(cess).ok
        THEN [raised |-> "ValueError", val |-> NoTaxes]
        ELSE [raised |-> "none",
              val |-> [cgst_rate |-> RateOf(cgst).val,
                  cgst_amount |-> amt(cgst),
                       sgst_rate |-> RateOf(sgst).val,
                           sgst_amount |-> amt(sgst),
                       state_cess_rate |-> RateOf(cess).val,
                       state_cess_amount |-> amt(cess),
                       total_taxes |-> one(total),
                       invoice_total |-> one(inv)]]

\* One turn of the loop "for row in table1[3:]": what the row makes the
\* loop do.  The cells of an item row are read in field order: row[1],
\* then int(row[2]), then row[3] .. row[15].
ImRowKind(row) ==
    IF Len(row) < 1 THEN "IndexError"
    ELSE IF Truthy(Cell(row, 0)) /\ Contains(Cell(row, 0), Label.invoice_value)
         THEN "invoice_value"
    ELSE IF Truthy(Cell(row, 0)) /\ Contains(Cell(row, 0), Label.amount_in_words)
         THEN "words"
    ELSE IF IsSerial(Cell(row, 0))
         THEN IF Len(row) < 3 THEN "IndexError"
              ELSE IF ~QuantityOf(Cell(row, 2)).ok THEN "ValueError"
              ELSE IF Len(row) < 16 THEN "IndexError"
              ELSE "item"
    ELSE "other"

InstamartItemOf(row) ==
    [sr_no             |-> SerialOf(Cell(row, 0)),
     description       |-> SplitJoin(OrEmpty(Cell(row, 1))),
     quantity          |-> QuantityOf(Cell(row, 2)).val,
     uqc               |-> StripOrEmpty(Cell(row, 3)),
     hsn_sac_code      |-> StripOrEmpty(Cell(row, 4)),
     taxable_value     |-> Pf(Cell(row, 5)).val,
     discount          |-> Pf(Cell(row, 6)).val,
     net_taxable_value |-> Pf(Cell(row, 7)).val,
     cgst_rate         |-> Pf(Cell(row, 8)).val,
     cgst_amount       |-> Pf(Cell(row, 9)).val,
     sgst_rate         |-> Pf(Cell(row, 10)).val,
     sgst_amount       |-> Pf(Cell(row, 11)).val,
     cess_rate         |-> Pf(Cell(row, 12)).val,
     cess_amount       |-> Pf(Cell(row, 13)).val,
     additional_cess   |-> Pf(Cell(row, 14)).val,
     total_amount      |-> Pf(Cell(row, 15)).val]

\* A variant of the page count test that wants a third page.
MoreThanTwoPages(pages) == Len(pages) > 2

\* if len(pdf.pages) >= 2
HasSecondPage(pages) == Len(pages) >= 2

\* "for row in table2[3:]: if row[0] and <serial>: h_item_row = row; break":
\* row[0] of an empty row met before the item row raises IndexError.
FindItemRow(table2) ==
    LET hits    == {k \in 4..Len(table2) :
                       Len(table2[k]) > 0 /\ IsSerial(table2[k][1])}
        empties == {k \in 4..Len(table2) : Len(table2[k]) = 0}
        first(S) == IF S = {} THEN Len(table2) + 1 ELSE Least(S)
    IN  IF first(empties) < first(hits)
        THEN [raised |-> "IndexError", found |-> FALSE, row |-> <<>>]
        ELSE IF hits = {}
             THEN [raised |-> "none", found |-> FALSE, row |-> <<>>]
             ELSE [raised |-> "none", found |-> TRUE,
                 row |-> table2[Least(hits)]]

\* A variant of the tax block step that never reads the tax row.
TaxesAlwaysEmpty(h_tax_row) == [raised |-> "none", val |-> NoTaxes]

\* h_taxes = _parse_handling_tax(h_tax_row[0]) if h_tax_row else {}
TaxesOrEmpty(h_tax_row) ==
    IF h_tax_row.found THEN ParseHandlingTax(h_tax_row.text)
    ELSE [raised |-> "none", val |-> NoTaxes]

\* A variant of the placeholder description that leaves the order id out.
ZeroFeeNoOrderId(inv_order_id) == Label.handling_fees_for

\* f"Handling Fees for Order {inv_order_id}"
ZeroFeeDescription(inv_order_id) == Label.handling_fees_for \o inv_order_id

\* "if h_item_row: ... else: ...": the description and the three amounts
\* of the fee, from the item row (10 columns or 9) or of a zero-fee invoice.
HandlingLine(item, inv_order_id) ==
    IF item.found
    THEN LET row == item.row
             o   == IF Len(row) >= 10 THEN 1 ELSE 0
         IN  IF Len(row) < 9
             THEN [raised |-> "IndexError", h_desc |-> <<>>,
                   h_unit_price |-> Zero, h_discount |-> Zero, h_nav |-> Zero]
             ELSE [raised |-> "none",
                   h_desc |-> SplitJoin(OrEmpty(Cell(row, 1))),
                   h_unit_price |-> Pf(Cell(row, 5)).val,
                   h_discount |-> Pf(Cell(row, 7 + o)).val,
                   h_nav |-> Pf(Cell(row, 8 + o)).val]
    ELSE [raised |-> "none", h_desc |-> ZeroFeeDescription(inv_order_id),
          h_unit_price |-> Zero, h_discount |-> Zero, h_nav |-> Zero]

HandlingFee(h_header, line, h_taxes) ==
    [invoice_no           |-> h_header.invoice_no,
     description          |-> line.h_desc,
     unit_price           |-> line.h_unit_price,
     discount             |-> line.h_discount,
     net_assessable_value |-> line.h_nav,
     cgst_rate            |-> h_taxes.cgst_rate,
     cgst_amount          |-> h_taxes.cgst_amount,
     sgst_rate            |-> h_taxes.sgst_rate,
     sgst_amount          |-> h_taxes.sgst_amount,
     state_cess_rate      |-> h_taxes.state_cess_rate,
     state_cess_amount    |-> h_taxes.state_cess_amount,
     total_taxes          |-> h_taxes.total_taxes,
     invoice_total        |-> h_taxes.invoice_total]

NoHandlingFee ==
    HandlingFee([invoice_no |-> <<>>],
                [h_desc |-> <<>>, h_unit_price |-> Zero, h_discount |-> Zero,
                 h_nav |-> Zero],
                NoTaxes)

HandlingRaised(x) == [raised |-> x, val |-> NoHandlingFee]

\* The page 2 block of parse_instamart_detail (lines 290-355) on the tables
\* of page 2: table2 = extract_tables()[0], the header of table2[2][0], the
\* item row, the tax row, the HandlingFee.
HandlingOf(tables2, inv_order_id) ==
    IF tables2 = <<>> THEN HandlingRaised("IndexError")
    ELSE LET table2 == tables2[1]
         IN  IF Len(table2) < 3 \/ Len(table2[3]) = 0
             THEN HandlingRaised("IndexError")
             ELSE LET h_header  == ParseHandlingHeader(OrEmpty(Cell(table2[3], 0)))
                      h_item    == FindItemRow(table2)
                      h_tax_row == FindRow(table2, {Label.taxes, Label.cgst})
                      h_taxes   == TaxesOrEmpty(h_tax_row)
                      line      == HandlingLine(h_item, inv_order_id)
                  IN  IF h_item.raised # "none"
                      THEN HandlingRaised(h_item.raised)
                      ELSE IF h_tax_row.raised # "none"
                      THEN HandlingRaised(h_tax_row.raised)
                      ELSE IF h_taxes.raised # "none"
                      THEN HandlingRaised(h_taxes.raised)
                      ELSE IF line.raised # "none"
                      THEN HandlingRaised(line.raised)
                      ELSE [raised |-> "none",
                            val |-> HandlingFee(h_header, line, h_taxes.val)]

\* handling_fee is <<>> for None.
InstamartInvoice(h, invoice_value, items, handling) ==
    [order_id      |-> h.order_id,
     invoice_no    |-> h.invoice_no,
     document_type |-> h.document_type,
     invoice_value |-> invoice_value,
     items         |-> items,
     handling_fee  |-> handling]

ImTables1 == im_pages[1]

ImTable1 == ImTables1[1]

ImRow == ImTable1[im_row]

\* pdf = pdfplumber.open(...)
ImOpen ==
    /\ im_pc = "open" /\ im_openable
    /\ im_handle' = [im_handle EXCEPT !.opened = @ + 1]
    /\ im_pc' = "page1"
    /\ UNCHANGED <<normVars, pipeVars, sumVars, foodVars, im_openable, im_pages, im_exc,
                   im_header, im_row, im_items, im_invoice_value, im_result>>

\* except Exception: print, return None
ImOpenFails ==
    /\ im_pc = "open" /\ ~im_openable
    /\ im_result' = <<>>
    /\ im_pc' = "returned"
    /\ UNCHANGED <<normVars, pipeVars, sumVars, foodVars, im_openable, im_pages, im_exc,
                   im_handle, im_header, im_row, im_items, im_invoice_value>>

\* extract_tables()[0] and table1[1][0] are there
ImPage1Ok ==
    /\ ImTables1 # <<>>
    /\ Len(ImTable1) >= 2
    /\ Len(ImTable1[2]) > 0

\* table1 = page1.extract_tables()[0]; header = _parse_seller_header(
\* table1[1][0] or ""); items = []; invoice_value = 0.0
ImPage1 ==
    /\ im_pc = "page1" /\ ImPage1Ok
    /\ im_header' = ParseSellerHeader(OrEmpty(Cell(ImTable1[2], 0)))
    /\ im_items' = <<>>
    /\ im_invoice_value' = Zero
    /\ im_row' = 4
    /\ im_pc' = "items"
    /\ UNCHANGED <<normVars, pipeVars, sumVars, foodVars, im_openable, im_pages, im_exc,
                   im_handle, im_result>>

\* no table on page 1, no row 1 in it, or no cell in row 1
ImPage1Raises ==
    /\ im_pc = "page1" /\ ~ImPage1Ok
    /\ im_exc' = "IndexError"
    /\ im_pc' = "finally"
    /\ UNCHANGED <<normVars, pipeVars, sumVars, foodVars, im_openable, im_pages,
                   im_handle, im_header, im_row, im_items, im_invoice_value,
                   im_result>>

ImRowRaises ==
    /\ im_pc = "items" /\ im_row <= Len(ImTable1)
    /\ ImRowKind(ImRow) \in {"IndexError", "ValueError"}
    /\ im_exc' = ImRowKind(ImRow)
    /\ im_pc' = "finally"
    /\ UNCHANGED <<normVars, pipeVars, sumVars, foodVars, im_openable, im_pages,
                   im_handle, im_header, im_row, im_items, im_invoice_value,
                   im_result>>

\* invoice_value = _pf(row[-1]); continue
ImRowInvoiceValue ==
    /\ im_pc = "items" /\ im_row <= Len(ImTable1)
    /\ ImRowKind(ImRow) = "invoice_value"
    /\ im_invoice_value' = Pf(LastCell(ImRow)).val
    /\ im_row' = im_row + 1
    /\ UNCHANGED <<normVars, pipeVars, sumVars, foodVars, im_openable, im_pages, im_pc,
                   im_exc, im_handle, im_header, im_items, im_result>>

\* "Amount in words": continue
ImRowWords ==
    /\ im_pc = "items" /\ im_row <= Len(ImTable1)
    /\ ImRowKind(ImRow) = "words"
    /\ im_row' = im_row + 1
    /\ UNCHANGED <<normVars, pipeVars, sumVars, foodVars, im_openable, im_pages, im_pc,
                   im_exc, im_handle, im_header, im_items, im_invoice_value,
                   im_result>>

\* items.append(InstamartItem(...))
ImRowItem ==
    /\ im_pc = "items" /\ im_row <= Len(ImTable1)
    /\ ImRowKind(ImRow) = "item"
    /\ im_items' = Append(im_items, InstamartItemOf(ImRow))
    /\ im_row' = im_row + 1
    /\ UNCHANGED <<normVars, pipeVars, sumVars, foodVars, im_openable, im_pages, im_pc,
                   im_exc, im_handle, im_header, im_invoice_value, im_result>>

ImRowOther ==
    /\ im_pc = "items" /\ im_row <= Len(ImTable1)
    /\ ImRowKind(ImRow) = "other"
    /\ im_row' = im_row + 1
    /\ UNCHANGED <<normVars, pipeVars, sumVars, foodVars, im_openable, im_pages, im_pc,
                   im_exc, im_handle, im_header, im_items, im_invoice_value,
                   im_result>>

\* the loop ran off the table
ImRowsDone ==
    /\ im_pc = "items" /\ im_row > Len(ImTable1)
    /\ im_pc' = "page2"
    /\ UNCHANGED <<normVars, pipeVars, sumVars, foodVars, im_openable, im_pages, im_exc,
                   im_handle, im_header, im_row, im_items, im_invoice_value,
                   im_result>>

\* handling = None; the page count test fails; return InstamartInvoice(...)
ImNoHandling ==
    /\ im_pc = "page2" /\ ~HasSecondPage(im_pages)
    /\ im_result' = <<InstamartInvoice(im_header, im_invoice_value, im_items,
                                       <<>>)>>
    /\ im_pc' = "finally"
    /\ UNCHANGED <<normVars, pipeVars, sumVars, foodVars, im_openable, im_pages, im_exc,
                   im_handle, im_header, im_row, im_items, im_invoice_value>>

\* the page 2 block; return InstamartInvoice(...)
ImHandling ==
    /\ im_pc = "page2" /\ HasSecondPage(im_pages)
    /\ HandlingOf(im_pages[2], im_header.order_id).raised = "none"
    /\ im_result' =
         <<InstamartInvoice(im_header, im_invoice_value, im_items,
               <<HandlingOf(im_pages[2], im_header.order_id).val>>)>>
    /\ im_pc' = "finally"
    /\ UNCHANGED <<normVars, pipeVars, sumVars, foodVars, im_openable, im_pages, im_exc,
                   im_handle, im_header, im_row, im_items, im_invoice_value>>

ImHandlingRaises ==
    /\ im_pc = "page2" /\ HasSecondPage(im_pages)
    /\ HandlingOf(im_pages[2], im_header.order_id).raised # "none"
    /\ im_exc' = HandlingOf(im_pages[2], im_header.order_id).raised
    /\ im_pc' = "finally"
    /\ UNCHANGED <<normVars, pipeVars, sumVars, foodVars, im_openable, im_pages,
                   im_handle, im_header, im_row, im_items, im_invoice_value,
                   im_result>>

\* finally: pdf.close()
ImClose ==
    /\ im_pc = "finally"
    /\ im_handle' = [im_handle EXCEPT !.closed = @ + 1]
    /\ im_pc' = IF im_exc = "none" THEN "returned" ELSE "raised"
    /\ UNCHANGED <<normVars, pipeVars, sumVars, foodVars, im_openable, im_pages, im_exc,
                   im_header, im_row, im_items, im_invoice_value, im_result>>

NextInstamart ==
    \/ ImOpen
    \/ ImOpenFails
    \/ ImPage1
    \/ ImPage1Raises
    \/ ImRowRaises
    \/ ImRowInvoiceValue
    \/ ImRowWords
    \/ ImRowItem
    \/ ImRowOther
    \/ ImRowsDone
    \/ ImNoHandling
    \/ ImHandling
    \/ ImHandlingRaises
    \/ ImClose

NextDetail ==
    \/ NextFood
    \/ NextInstamart

----------------------------------------------------------------------------
(* Inputs                                                                  *)

\* The sequences over a set, up to a length.
RECURSIVE SeqsUpTo(_, _)
SeqsUpTo(S, n) ==
    IF n = 0 THEN {<<>>}
    ELSE LET shorter == SeqsUpTo(S, n - 1)
         IN  shorter \cup {Append(t, c) : t \in shorter, c \in S}

RECURSIVE Flatten(_)
Flatten(ss) == IF ss = <<>> THEN <<>> ELSE Head(ss) \o Flatten(Tail(ss))

\* ---- tokens handed to a normalizer
MaxTokenLen == 3

TokenAlphabet == {Rupee, "1", "5", "0", ",", ".", " ", "N"}

Tokens == SeqsUpTo(TokenAlphabet, MaxTokenLen) \cup {None}

\* ---- text lines of a summary page
DateLine == <<"0", "9", "-", "0", "8", "-", "2", "0", "2", "5">>
OrderIdLine ==
    <<"1", "2", "3", "4", "5", "6", "7", "8", "9", "0", "1", "2", "3", "4", "5">>
NameLine == <<"C", "a", "f", "e">>
BlankLine == <<" ">>
AmountLine == <<Rupee, "1", ",", "7", "7", "4", ".", "5", "0">>
\* Matches AMOUNT_PATTERN and is no number.
BadAmountLine == <<Rupee, ".">>

ScanPool ==
    {DateLine, OrderIdLine, NameLine, BlankLine, AmountLine, BadAmountLine,
     ViewMarker}

MaxLines == 4

\* A stream of lines on one page, or broken into two pages; split("\n")
\* never yields an empty list, so no page is empty.
ScanDocs ==
    {IF b = 0 THEN <<flat>>
     ELSE <<SubSeq(flat, 1, b), SubSeq(flat, b + 1, Len(flat))>> :
        <<flat, b>> \in {fb \in SeqsUpTo(ScanPool, MaxLines) \X (0..MaxLines) :
                            fb[1] # <<>> /\ fb[2] < Len(fb[1])}}

\* ---- whole summary documents
FileNames ==
    {<<"S", "_", "F", "O", "O", "D", ".", "P", "D", "F">>,
     <<"s", "_", "i", "n", "s", "t", "a", "m", "a", "r", "t", ".", "p", "d", "f">>,
     <<"s", "_", "3", ".", "p", "d", "f">>,
     <<"i", "n", "s", "t", "a", "m", "a", "r", "t", "_", "f", "o", "o", "d">>}

NumberOfOrdersLabel ==
    <<"N", "u", "m", "b", "e", "r", " ", "o", "f", " ", "O", "r", "d", "e", "r", "s">>
TotalAmountLabel == <<"T", "o", "t", "a", "l", " ", "A", "m", "o", "u", "n", "t">>
DateRangeLabel == <<"D", "a", "t", "e", " ", "R", "a", "n", "g", "e">>
JohnDoe == <<"J", "o", "h", "n", " ", "D", "o", "e">>
JohnEmail == <<"j", "@", "x", ".", "i", "n">>
RangeLine == DateLine \o <<" ", "t", "o", " ">> \o DateLine
TotalLine == <<Rupee, "4", "4", "6", "3", "3", ".", "4", "3">>

CustomerBlock(count, total) ==
    <<CustomerNameLabel, NumberOfOrdersLabel, TotalAmountLabel,
      JohnDoe, count, total>>

EmailBlock == <<EmailLabel, DateRangeLabel, JohnEmail, RangeLine>>

\* No header; a full header; a count and a total that are no numbers; the
\* customer block cut after the name; the email block cut after the email
\* and after the second label; the customer block twice.
HeaderBlocks ==
    {<<>>,
     CustomerBlock(<<"2">>, TotalLine) \o EmailBlock,
     CustomerBlock(<<"a", "b", "c">>, TotalLine) \o EmailBlock,
     CustomerBlock(<<"2">>, <<"N", "/", "A">>) \o EmailBlock,
     SubSeq(CustomerBlock(<<"2">>, TotalLine), 1, 4),
     SubSeq(EmailBlock, 1, 3),
     SubSeq(EmailBlock, 1, 2),
     CustomerBlock(<<"2">>, TotalLine) \o CustomerBlock(<<"1">>, TotalLine)}

RowBlocks ==
    {<<DateLine, OrderIdLine, NameLine, AmountLine, ViewMarker>>,
     <<DateLine, OrderIdLine, NameLine, BadAmountLine>>,
     <<DateLine, OrderIdLine, NameLine, NameLine>>,
     <<DateLine, NameLine>>}

MaxBlocks == 2

\* The text of a page ends with a line break, so split("\n") ends with "".
PageLines(content) == content \o << <<>> >>

\* The header block and the row blocks on one page, or the last row block
\* on a second page.
SummaryDocs ==
    {IF onePage \/ bs = <<>> THEN <<PageLines(h \o Flatten(bs))>>
     ELSE <<PageLines(h \o Flatten(SubSeq(bs, 1, Len(bs) - 1))),
            PageLines(bs[Len(bs)])>> :
        <<h, bs, onePage>> \in
            HeaderBlocks \X SeqsUpTo(RowBlocks, MaxBlocks) \X BOOLEAN}

MaxLinks == 2

UriOf(k) == <<"u", "r", "l">> \o <<k>>

\* The links of the document: each has a uri or not; the uris differ.
LinkLists ==
    {[k \in 1..Len(bs) |-> [has_uri |-> bs[k], uri |-> UriOf(k)]] :
        bs \in SeqsUpTo(BOOLEAN, MaxLinks)}

\* ---- tables of a food detail document
FoodTitleRow == <<<<"T", "a", "x", " ", "I", "n", "v", "o", "i", "c", "e">>,
    None>>
FoodSpacerRow == <<None, None>>
FoodColumnRow == <<<<"S", "r", " ", "N", "o">>, <<"I", "t", "e", "m">>>>

FoodHeaderCells == {None, <<"O", "r", "d", "e", "r", " ", "I", "D", ":",
    " ", "2", "3", "4", "5", "\n", "I", "n", "v", "o", "i", "c", "e", " ",
    "N", "o", ":", " ", "F", "7">>}

\* Item rows of 9 and of 8 columns, the two forms of the Subtotal row, a
\* spacer, an item row whose quantity is no integer, an item row cut short.
FoodItem9 ==
    <<<<"1", ".">>, <<" ", "T", "e", "a", " ">>, <<"O", "T", "H">>, <<"2">>,
        None, <<"1", "0", ".", "0", "0">>, <<"2", "0", ".", "0", "0">>,
        <<"0", ".", "0", "0">>, <<"2", "0", ".", "0", "0">>>>
FoodItem8 == <<<<"2">>, <<"B", "u", "n">>, None, None, <<"5", ".", "5",
    "0">>, <<"5", ".", "5", "0">>, None, <<"5", ".", "5", "0">>>>
FoodSubtotalSecond == <<None, <<"S", "u", "b", "t", "o", "t", "a", "l">>,
    <<"2", "5", ".", "5", "0">>>>
FoodSubtotalFirst == <<<<"S", "u", "b", "t", "o", "t", "a", "l", " ", "(",
    "A", ")">>, None, <<Rupee, "7">> >>
FoodBadQty == <<<<"3">>, <<"J", "a", "m">>, <<"O", "T", "H">>, <<"x">>,
    None, None, None, None>>
FoodShortItem == <<<<"4">>, <<"P", "i", "e">>, <<"O", "T", "H">>>>

FoodRowPool ==
    {FoodItem9, FoodItem8, FoodSubtotalSecond, FoodSubtotalFirst,
     FoodSpacerRow, FoodBadQty, FoodShortItem}

FoodTaxRow ==
    <<<<"T", "a", "x", "e", "s", " ", "C", "G", "S", "T", " ", "2", ".",
        "5", "%", " ", "0", ".", "6", "4", " ", "S", "G", "S", "T", "/",
        "U", "T", "G", "S", "T", " ", "2", ".", "5", "%", " ", "0", ".",
        "6", "4", " ", "T", "o", "t", "a", "l", " ", "t", "a", "x", "e",
        "s", " ", "1", ".", "2", "8", " ", "I", "n", "v", "o", "i", "c",
        "e", " ", "T", "o", "t", "a", "l", " ", "2", "6", ".", "7", "8">>,
        None>>
FoodBadTaxRow == <<<<"T", "a", "x", "e", "s", " ", "C", "G", "S", "T", " ",
    ".", "%", " ", "1">>, None>>
FoodEcoRow == <<<<"E", "C", "O", " ", "u", "n", "d", "e", "r", " ", "G",
    "S", "T", " ", "G", "S", "T", "I", "N", ":", " ", "2", "9", "A", "A",
    "F">>, None>>

\* What follows the scanned rows: nothing, the tax and ECO rows and two
\* spacers, the same with a rate that is no number, or four spacers.
FoodTails ==
    {<<>>,
     <<FoodTaxRow, FoodEcoRow, FoodSpacerRow, FoodSpacerRow>>,
     <<FoodBadTaxRow, FoodEcoRow, FoodSpacerRow, FoodSpacerRow>>,
     <<FoodSpacerRow, FoodSpacerRow, FoodSpacerRow, FoodSpacerRow>>}

MaxFoodRows == 3

FoodTable(h, body, tail) ==
    <<FoodTitleRow, FoodSpacerRow, <<h, None>>,
        FoodColumnRow>> \o body \o tail

\* extract_tables() of page 1: no table, one table, or a table whose
\* header row has no cell.
FoodTableSets ==
    {<<>>,
     << <<FoodTitleRow, FoodSpacerRow, <<>>, FoodColumnRow, FoodSpacerRow,
          FoodSpacerRow, FoodSpacerRow, FoodSpacerRow>> >>}
    \cup {<<FoodTable(h, body, tail)>> :
             <<h, body, tail>> \in
                 FoodHeaderCells \X SeqsUpTo(FoodRowPool, MaxFoodRows)
                                 \X FoodTails}

\* ---- tables of an instamart detail document
ImTitleRow == <<<<"T", "a", "x", " ", "I", "n", "v", "o", "i", "c", "e">>>>
ImColumnRow == <<<<"S", "r", " ", "N", "o">>, <<"D", "e", "s", "c", "r",
    "i", "p", "t", "i", "o", "n">>>>

ImHeaderCells ==
    {None, <<"O", "r", "d", "e", "r", " ", "I", "D", ":", " ", "2", "3",
        "4", "5", "\n", "I", "n", "v", "o", "i", "c", "e", " ", "N", "o",
        ":", " ", "I", "M", "7">>, <<"I", "n", "v", "o", "i", "c", "e", " ",
        "N", "o", ":", " ", "I", "M", "7">>}

\* Two item rows of 16 columns, an item row whose quantity is blank, an
\* item row cut short, the two sentinel rows, a spacer, a row of no cell.
ImItemA ==
    <<<<"1", ".">>, <<"M", "i", "l", "k", " ", " ", "1", "L">>, <<"2">>,
        <<"P", "C", "S">>, <<"0", "4", "0", "1">>, <<"5", "0", ".", "0",
        "0">>, <<"0", ".", "0", "0">>, <<"5", "0", ".", "0", "0">>, <<"2",
        ".", "5">>, <<"1", ".", "2", "5">>, <<"2", ".", "5">>, <<"1", ".",
        "2", "5">>, <<"0">>, <<"0", ".", "0", "0">>, <<"0", ".", "0", "0">>,
        <<"5", "2", ".", "5", "0">>>>
ImItemB ==
    <<<<"2">>, None, None, None, None, <<Rupee, "1", ",", "0", "0", "0">>,
        None, None, None, None, None, None, None, None, None, <<"1", ",",
        "0", "0", "0">>>>
ImBadQty == <<<<"3">>, <<"T", "e", "a">>, <<" ">>>>
ImShortItem == <<<<"4">>, <<"E", "g", "g">>>>
ImInvoiceValueRow == <<<<"I", "n", "v", "o", "i", "c", "e", " ", "V", "a",
    "l", "u", "e">>, None, <<"5", "2", ".", "5", "0">>>>
ImAmountInWordsRow == <<<<"A", "m", "o", "u", "n", "t", " ", "i", "n", " ",
    "w", "o", "r", "d", "s", ":", " ", "F", "i", "f", "t", "y">>>>
ImSpacerRow == <<None>>
ImEmptyRow == <<>>

ImRowPool ==
    {ImItemA, ImItemB, ImBadQty, ImShortItem, ImInvoiceValueRow,
     ImAmountInWordsRow, ImSpacerRow, ImEmptyRow}

MaxImRows == 2

ImFirstPage(h, body) == << <<ImTitleRow, <<h>>, ImColumnRow>> \o body >>

\* extract_tables() of page 1: no table, a table of one row, a table whose
\* header row has no cell, or a table with a header and item rows.
ImPage1s ==
    {<<>>, << <<ImTitleRow>> >>, << <<ImTitleRow, <<>>, ImColumnRow>> >>}
    \cup {ImFirstPage(h, body) :
             <<h, body>> \in ImHeaderCells \X SeqsUpTo(ImRowPool, MaxImRows)}

FeeHeaderCells == {None, <<"I", "n", "v", "o", "i", "c", "e", " ", "N", "o",
    ":", " ", "H", "F", "9">>}

\* Fee rows of 10 and of 9 columns, a fee row cut short, a tax row, a tax
\* row with a rate that is no number, a spacer, a row of no cell.
FeeItem10 ==
    <<<<"1", ".">>, <<"H", "a", "n", "d", "l", "i", "n", "g", " ", " ", "F",
        "e", "e", "s">>, <<"1">>, <<"O", "T", "H">>, <<"9", "9", "6", "8">>,
        <<"1", "0", ".", "0", "0">>, None, None, <<"0", ".", "0", "0">>,
        <<"1", "0", ".", "0", "0">>>>
FeeItem9 ==
    <<<<"1">>, <<"H", "a", "n", "d", "l", "i", "n", "g", " ", "F", "e", "e",
        "s">>, <<"1">>, <<"O", "T", "H">>, <<"9", "9", "6", "8">>, <<"8",
        ".", "0", "0">>, None, <<"1", ".", "0", "0">>, <<"7", ".", "0",
        "0">>>>
FeeShortItem == <<<<"2">>, <<"F", "e", "e">>>>
FeeTaxRow ==
    <<<<"T", "a", "x", "e", "s", " ", "C", "G", "S", "T", " ", "9", "%",
        " ", "0", ".", "9", "0", " ", "S", "G", "S", "T", "/", "U", "T",
        "G", "S", "T", " ", "9", "%", " ", "0", ".", "9", "0", " ", "T",
        "o", "t", "a", "l", " ", "t", "a", "x", "e", "s", " ", "1", ".",
        "8", "0", " ", "I", "n", "v", "o", "i", "c", "e", " ", "T", "o",
        "t", "a", "l", " ", "1", "1", ".", "8", "0">>>>
FeeBadTaxRow == <<<<"T", "a", "x", "e", "s", " ", "C", "G", "S", "T", " ",
    ".", "%", " ", "1">>>>
FeeSpacerRow == <<None>>
FeeEmptyRow == <<>>

FeeRowPool ==
    {FeeItem10, FeeItem9, FeeShortItem, FeeTaxRow, FeeBadTaxRow,
     FeeSpacerRow, FeeEmptyRow}

MaxFeeRows == 2

ImSecondPage(h, rest) ==
    << <<ImTitleRow, FeeSpacerRow, <<h>>, ImColumnRow>> \o rest >>

\* extract_tables() of page 2: no table, a table of two rows, or a table
\* with a header and fee rows.
ImPage2s ==
    {<<>>, << <<ImTitleRow, FeeSpacerRow>> >>}
    \cup {ImSecondPage(h, rest) :
             <<h, rest>> \in FeeHeaderCells \X SeqsUpTo(FeeRowPool,
                 MaxFeeRows)}

MaxPages == 2

\* A page the extractor never reads.
BlankPage == <<>>

ZeroFeePage2 == ImSecondPage(<<"I", "n", "v", "o", "i", "c", "e", " ", "N", "o",
    ":", " ", "H", "F", "9">>, <<FeeTaxRow>>)

\* Two first pages that extract: with an order id and an item, without.
GoodPage1s ==
    {ImFirstPage(<<"O", "r", "d", "e", "r", " ", "I", "D", ":", " ", "2", "3",
        "4", "5", "\n", "I", "n", "v", "o", "i", "c", "e", " ", "N", "o",
        ":", " ", "I", "M", "7">>, <<ImItemA>>),
     ImFirstPage(<<"I", "n", "v", "o", "i", "c", "e", " ", "N", "o", ":", " ",
         "I", "M", "7">>, <<>>)}

\* Documents of one page; documents of two pages, where either page 1 is
\* any page 1 and page 2 a zero-fee invoice with a tax row, or page 1 is a
\* page that extracts and page 2 is any page 2; and the two-page documents
\* with further pages behind them.
ImDocs ==
    LET twos == {<<p1, ZeroFeePage2>> : p1 \in ImPage1s}
                \cup {<<p1, p2>> : p1 \in GoodPage1s, p2 \in ImPage2s}
    IN  {<<p1>> : p1 \in ImPage1s}
        \cup {d \o [k \in 1..n |-> BlankPage] :
                 d \in twos, n \in 0..(MaxPages - 2)}

----------------------------------------------------------------------------
(* Specifications                                                          *)

NormIdle ==
    /\ norm_fn = "none"
    /\ norm_in = None
    /\ norm_pc = "idle"
    /\ norm_out = Returned(Zero)

ScanStart ==
    /\ page = 1
    /\ i = 1
    /\ date = <<>>
    /\ order_id = <<>>
    /\ name_parts = <<>>
    /\ rows = <<>>

SummaryIdle ==
    /\ file_name = <<>>
    /\ openable = FALSE
    /\ doc = <<>>
    /\ links = <<>>
    /\ s_pc = "idle"
    /\ s_exc = "none"
    /\ handle = [opened |-> 0, closed |-> 0]
    /\ order_type = "none"
    /\ header = EmptyHeader
    /\ urls = <<>>
    /\ ScanStart
    /\ warned = FALSE
    /\ summary = <<>>

FoodIdle ==
    /\ f_openable = FALSE
    /\ f_tables = <<>>
    /\ f_pc = "idle"
    /\ f_exc = "none"
    /\ f_handle = [opened |-> 0, closed |-> 0]
    /\ f_header = EmptyDetailHeader
    /\ f_row = 0
    /\ f_items = <<>>
    /\ f_subtotal = Zero
    /\ f_result = <<>>

ImIdle ==
    /\ im_openable = FALSE
    /\ im_pages = <<>>
    /\ im_pc = "idle"
    /\ im_exc = "none"
    /\ im_handle = [opened |-> 0, closed |-> 0]
    /\ im_header = EmptyDetailHeader
    /\ im_row = 0
    /\ im_items = <<>>
    /\ im_invoice_value = Zero
    /\ im_result = <<>>

DetailIdle == FoodIdle /\ ImIdle

LoadIdle ==
    /\ l_kind = "none"
    /\ l_inv = <<>>
    /\ l_pc = "idle"
    /\ l_exc = "none"
    /\ l_order_id = <<>>
    /\ l_item = 0
    /\ l_log = <<>>

DlIdle ==
    /\ d_orders = <<>>
    /\ d_disk = <<>>
    /\ d_pc = "idle"
    /\ d_exc = "none"
    /\ d_i = 0
    /\ d_results = {}
    /\ d_skipped = 0
    /\ d_downloaded = 0
    /\ d_failed = 0
    /\ d_requests = <<>>

ValIdle == v_counts = <<>>

RepIdle ==
    /\ r_phase = "idle"
    /\ r_active = "none"
    /\ r_call = <<>>
    /\ r_first = <<>>
    /\ r_others = 0

MainIdle ==
    /\ m_orders = <<>>
    /\ m_pc = "idle"
    /\ m_i = 0
    /\ m_loaded = 0
    /\ m_failed = 0

PipeIdle == LoadIdle /\ DlIdle /\ ValIdle /\ RepIdle /\ MainIdle

\* ---- SpecNorm: one call of a normalizer on a token
InitNorm ==
    /\ norm_fn \in {"_parse_amount", "_parse_float", "_pf"}
    /\ norm_in \in Tokens
    /\ norm_pc = "call"
    /\ norm_out = Returned(Zero)
    /\ SummaryIdle
    /\ DetailIdle
    /\ PipeIdle

NormFinish(r) ==
    /\ norm_out' = r
    /\ norm_pc' = IF r.raised = "none" THEN "returned" ELSE "raised"
    /\ UNCHANGED <<norm_fn, norm_in, sumVars, detailVars, pipeVars>>

CallParseAmount ==
    /\ norm_pc = "call" /\ norm_fn = "_parse_amount"
    /\ NormFinish(ParseAmount(norm_in))

CallParseFloat ==
    /\ norm_pc = "call" /\ norm_fn = "_parse_float"
    /\ NormFinish(ParseFloat(norm_in))

CallPf ==
    /\ norm_pc = "call" /\ norm_fn = "_pf"
    /\ NormFinish(Pf(norm_in))

NextNorm == CallParseAmount \/ CallParseFloat \/ CallPf

SpecNorm == InitNorm /\ [][NextNorm]_vars

\* ---- SpecScan: one call of _extract_order_rows on a document
InitScan ==
    /\ NormIdle
    /\ PipeIdle
    /\ file_name = <<>>
    /\ openable = TRUE
    /\ doc \in ScanDocs
    /\ links = <<>>
    /\ s_pc = "scan"
    /\ s_exc = "none"
    /\ handle = [opened |-> 1, closed |-> 0]
    /\ order_type = "none"
    /\ header = EmptyHeader
    /\ urls = <<>>
    /\ ScanStart
    /\ warned = FALSE
    /\ summary = <<>>
    /\ DetailIdle

SpecScan == InitScan /\ [][NextScan]_vars

\* ---- SpecScanLive: the scan as a loop that goes on while it can, on
\* pages of a few lines.
MaxLiveLines == 3

\* A date, an order id, a name, an amount of one digit and an amount that
\* float() rejects.
LivePool ==
    {DateLine, OrderIdLine, NameLine, <<Rupee, "5">>, BadAmountLine}

LiveDocs ==
    {IF b = 0 THEN <<flat>>
     ELSE <<SubSeq(flat, 1, b), SubSeq(flat, b + 1, Len(flat))>> :
        <<flat, b>> \in {fb \in SeqsUpTo(LivePool, MaxLiveLines)
                                    \X (0..MaxLiveLines) :
                            fb[1] # <<>> /\ fb[2] < Len(fb[1])}}

InitScanLive ==
    /\ NormIdle
    /\ PipeIdle
    /\ file_name = <<>>
    /\ openable = TRUE
    /\ doc \in LiveDocs
    /\ links = <<>>
    /\ s_pc = "scan"
    /\ s_exc = "none"
    /\ handle = [opened |-> 1, closed |-> 0]
    /\ order_type = "none"
    /\ header = EmptyHeader
    /\ urls = <<>>
    /\ ScanStart
    /\ warned = FALSE
    /\ summary = <<>>
    /\ DetailIdle

\* The loop is run by one thread: a step that can be taken is taken.
SpecScanLive == InitScanLive /\ [][NextScan]_vars /\ WF_vars(NextScan)

\* ---- SpecSummary: one call of parse_summary on a file
InitSummary ==
    /\ NormIdle
    /\ PipeIdle
    /\ file_name \in FileNames
    /\ openable \in BOOLEAN
    /\ doc \in SummaryDocs
    /\ links \in LinkLists
    /\ s_pc = "detect"
    /\ s_exc = "none"
    /\ handle = [opened |-> 0, closed |-> 0]
    /\ order_type = "none"
    /\ header = EmptyHeader
    /\ urls = <<>>
    /\ ScanStart
    /\ warned = FALSE
    /\ summary = <<>>
    /\ DetailIdle

SpecSummary == InitSummary /\ [][NextSummary]_vars

\* validate_summary_counts(summary): compares, warns, returns; the record
\* is only read.
ValidateSummaryCounts ==
    /\ s_pc = "returned" /\ v_counts = <<>>
    /\ LET actual == Len(summary[1].orders)
           expected == summary[1].number_of_orders
       IN  v_counts' = <<[result |-> actual = expected,
                          warned |-> actual # expected]>>
    /\ UNCHANGED <<normVars, sumVars, detailVars, loadVars, dlVars, repVars, mainVars>>

\* ---- SpecSummaryCounts: parse_summary on a file, then
\* validate_summary_counts on the record it returned
NextSummaryCounts ==
    \/ NextSummary
    \/ ValidateSummaryCounts

SpecSummaryCounts == InitSummary /\ [][NextSummaryCounts]_vars

\* ---- SpecFood: one call of parse_food_detail on a file; a file that
\* does not open has no tables to speak of
InitFood ==
    /\ NormIdle
    /\ PipeIdle
    /\ SummaryIdle
    /\ ImIdle
    /\ \/ f_openable = TRUE /\ f_tables \in FoodTableSets
       \/ f_openable = FALSE /\ f_tables = <<>>
    /\ f_pc = "open"
    /\ f_exc = "none"
    /\ f_handle = [opened |-> 0, closed |-> 0]
    /\ f_header = EmptyDetailHeader
    /\ f_row = 0
    /\ f_items = <<>>
    /\ f_subtotal = Zero
    /\ f_result = <<>>

SpecFood == InitFood /\ [][NextFood]_vars

\* ---- SpecInstamart: one call of parse_instamart_detail on a file
InitInstamart ==
    /\ NormIdle
    /\ PipeIdle
    /\ SummaryIdle
    /\ FoodIdle
    /\ \/ im_openable = TRUE /\ im_pages \in ImDocs
       \/ im_openable = FALSE /\ im_pages = <<BlankPage>>
    /\ im_pc = "open"
    /\ im_exc = "none"
    /\ im_handle = [opened |-> 0, closed |-> 0]
    /\ im_header = EmptyDetailHeader
    /\ im_row = 0
    /\ im_items = <<>>
    /\ im_invoice_value = Zero
    /\ im_result = <<>>

SpecInstamart == InitInstamart /\ [][NextInstamart]_vars

\* ---- SpecDetail: one call of either detail extractor
InitDetail ==
    \/ InitFood
    \/ InitInstamart

SpecDetail == InitDetail /\ [][NextDetail]_vars

\* ---- SpecExtract: one call of any of the three extractors
InitExtract ==
    \/ InitSummary
    \/ InitDetail

NextExtract ==
    \/ NextSummary
    \/ NextDetail

SpecExtract == InitExtract /\ [][NextExtract]_vars

\* ---- SpecRepeat: a caller runs an extractor on some artifacts, possibly
\* other extractor calls after it, and then the first call once more.  A
\* call starts as the code starts: with its arguments and a file to open;
\* what earlier calls left in the locals is still there.
MaxRepeatRows == 1

SummaryCall(name, can_open, pages, ls) ==
    [fn |-> "parse_summary", file_name |-> name, openable |-> can_open,
     doc |-> pages, links |-> ls, tables |-> <<>>]

FoodCall(can_open, ts) ==
    [fn |-> "parse_food_detail", file_name |-> <<>>, openable |-> can_open,
     doc |-> <<>>, links |-> <<>>, tables |-> ts]

InstamartCall(can_open, pages) ==
    [fn |-> "parse_instamart_detail", file_name |-> <<>>,
     openable |-> can_open, doc |-> <<>>, links |-> <<>>, tables |-> pages]

RepeatSummaryDocs ==
    {<<PageLines(h \o Flatten(bs))>> :
        h \in {<<>>, CustomerBlock(<<"2">>, TotalLine) \o EmailBlock,
               CustomerBlock(<<"a", "b", "c">>, TotalLine)},
        bs \in SeqsUpTo(RowBlocks, MaxRepeatRows)}
    \cup {<<PageLines(b), PageLines(b)>> : b \in RowBlocks}

RepeatFoodTables ==
    {<<>>,
     << <<FoodTitleRow, FoodSpacerRow, <<>>, FoodColumnRow, FoodSpacerRow,
          FoodSpacerRow, FoodSpacerRow, FoodSpacerRow>> >>}
    \cup {<<FoodTable(h, body, tail)>> :
             <<h, body, tail>> \in
                 FoodHeaderCells \X SeqsUpTo(FoodRowPool, MaxRepeatRows)
                                 \X FoodTails}

RepeatImDocs ==
    LET ones == {<<>>, << <<ImTitleRow>> >>,
                 << <<ImTitleRow, <<>>, ImColumnRow>> >>}
                \cup {ImFirstPage(h, body) :
                         <<h, body>> \in
                             ImHeaderCells \X SeqsUpTo(ImRowPool,
                                                       MaxRepeatRows)}
    IN  {<<p1>> : p1 \in ones}
        \cup {<<p1, ZeroFeePage2>> : p1 \in ones}
        \cup {<<p1, p2>> : p1 \in GoodPage1s, p2 \in ImPage2s}

RepeatCalls ==
    {SummaryCall(n, o, d, ls) :
        n \in {<<"S", "_", "F", "O", "O", "D", ".", "P", "D", "F">>, <<"s",
            "_", "3", ".", "p", "d", "f">>}, o \in BOOLEAN,
        d \in RepeatSummaryDocs,
        ls \in {<<>>, <<[has_uri |-> TRUE, uri |-> UriOf(1)]>>}}
    \cup {FoodCall(o, ts) : o \in BOOLEAN, ts \in RepeatFoodTables}
    \cup {InstamartCall(o, d) : o \in BOOLEAN, d \in RepeatImDocs}

\* The calls that may run in between.
OtherCalls ==
    {SummaryCall(<<"s", "_", "i", "n", "s", "t", "a", "m", "a", "r", "t",
        ".", "p", "d", "f">>, TRUE,
         <<PageLines(CustomerBlock(<<"1">>, TotalLine)
             \o <<DateLine, OrderIdLine, NameLine, AmountLine>>)>>, <<>>),
     FoodCall(TRUE, <<FoodTable(None, <<FoodItem8, FoodSubtotalFirst>>,
         <<FoodTaxRow, FoodEcoRow, FoodSpacerRow, FoodSpacerRow>>)>>),
     InstamartCall(TRUE, <<ImFirstPage(None, <<ImItemA, ImInvoiceValueRow>>),
         ZeroFeePage2>>)}

\* The entry of an extractor: its arguments, nothing opened, no exception.
StartCall(c) ==
    /\ r_active' = c.fn
    /\ IF c.fn = "parse_summary"
       THEN /\ file_name' = c.file_name
            /\ openable' = c.openable
            /\ doc' = c.doc
            /\ links' = c.links
            /\ s_pc' = "detect"
            /\ s_exc' = "none"
            /\ handle' = [opened |-> 0, closed |-> 0]
            /\ UNCHANGED <<order_type, header, urls, scanVars, warned,
                           summary, detailVars>>
       ELSE IF c.fn = "parse_food_detail"
       THEN /\ f_openable' = c.openable
            /\ f_tables' = c.tables
            /\ f_pc' = "open"
            /\ f_exc' = "none"
            /\ f_handle' = [opened |-> 0, closed |-> 0]
            /\ UNCHANGED <<f_header, f_row, f_items, f_subtotal, f_result,
                           sumVars, imVars>>
       ELSE /\ im_openable' = c.openable
            /\ im_pages' = c.tables
            /\ im_pc' = "open"
            /\ im_exc' = "none"
            /\ im_handle' = [opened |-> 0, closed |-> 0]
            /\ UNCHANGED <<im_header, im_row, im_items, im_invoice_value,
                           im_result, sumVars, foodVars>>

CallEnded ==
    \/ r_active = "parse_summary" /\ s_pc \in {"returned", "raised"}
    \/ r_active = "parse_food_detail" /\ f_pc \in {"returned", "raised"}
    \/ r_active = "parse_instamart_detail" /\ im_pc \in {"returned", "raised"}

\* What the caller gets from the call that ended: the value returned or
\* the exception.
CallOutcome ==
    IF r_active = "parse_summary"
    THEN [exc |-> s_exc, value |-> IF s_exc = "none" THEN summary ELSE <<>>]
    ELSE IF r_active = "parse_food_detail"
    THEN [exc |-> f_exc, value |-> IF f_exc = "none" THEN f_result ELSE <<>>]
    ELSE [exc |-> im_exc,
        value |-> IF im_exc = "none" THEN im_result ELSE <<>>]

\* One call of another document is made before the first one is repeated.
OtherCall ==
    /\ r_phase = "first" /\ CallEnded
    /\ \E c \in OtherCalls : StartCall(c)
    /\ r_first' = <<CallOutcome>>
    /\ r_others' = r_others + 1
    /\ r_phase' = "other"
    /\ UNCHANGED <<normVars, loadVars, dlVars, valVars, mainVars, r_call>>

\* The first call is made again, on the same artifacts.
RepeatCall ==
    /\ r_phase \in {"first", "other"} /\ CallEnded
    /\ StartCall(r_call)
    /\ r_first' = IF r_phase = "first" THEN <<CallOutcome>> ELSE r_first
    /\ r_phase' = "second"
    /\ UNCHANGED <<normVars, loadVars, dlVars, valVars, mainVars, r_call,
                   r_others>>

InitRepeat ==
    /\ NormIdle
    /\ LoadIdle /\ DlIdle /\ ValIdle /\ MainIdle
    /\ r_call \in RepeatCalls
    /\ r_phase = "first"
    /\ r_active = r_call.fn
    /\ r_first = <<>>
    /\ r_others = 0
    /\ IF r_call.fn = "parse_summary"
       THEN /\ file_name = r_call.file_name
            /\ openable = r_call.openable
            /\ doc = r_call.doc
            /\ links = r_call.links
            /\ s_pc = "detect"
       ELSE /\ file_name = <<>> /\ openable = FALSE /\ doc = <<>>
            /\ links = <<>>
            /\ s_pc = "idle"
    /\ s_exc = "none"
    /\ handle = [opened |-> 0, closed |-> 0]
    /\ order_type = "none"
    /\ header = EmptyHeader
    /\ urls = <<>>
    /\ ScanStart
    /\ warned = FALSE
    /\ summary = <<>>
    /\ IF r_call.fn = "parse_food_detail"
       THEN /\ f_openable = r_call.openable
            /\ f_tables = r_call.tables
            /\ f_pc = "open"
       ELSE f_openable = FALSE /\ f_tables = <<>> /\ f_pc = "idle"
    /\ f_exc = "none"
    /\ f_handle = [opened |-> 0, closed |-> 0]
    /\ f_header = EmptyDetailHeader
    /\ f_row = 0
    /\ f_items = <<>>
    /\ f_subtotal = Zero
    /\ f_result = <<>>
    /\ IF r_call.fn = "parse_instamart_detail"
       THEN /\ im_openable = r_call.openable
            /\ im_pages = r_call.tables
            /\ im_pc = "open"
       ELSE im_openable = FALSE /\ im_pages = <<>> /\ im_pc = "idle"
    /\ im_exc = "none"
    /\ im_handle = [opened |-> 0, closed |-> 0]
    /\ im_header = EmptyDetailHeader
    /\ im_row = 0
    /\ im_items = <<>>
    /\ im_invoice_value = Zero
    /\ im_result = <<>>

NextRepeat ==
    \/ NextExtract
    \/ OtherCall
    \/ RepeatCall

SpecRepeat == InitRepeat /\ [][NextRepeat]_vars

----------------------------------------------------------------------------
(* validator.py: validate_order_id and validate_date; loader.py: the order *)
(* upserts.  A statement executed on the cursor is logged as the record    *)
(* [stmt, table, order_id, row], row being the values the model follows.   *)

\* validate_order_id: TRUE when it returns, FALSE when it raises
\* ValidationError.  The pattern is fifteen digits between ^ and $, used
\* with re.match: $ matches at the end of the text and also just before a
\* newline that ends the text.
ValidateOrderId(oid) ==
    /\ Truthy(oid)
    /\ \/ Len(oid) = 15 /\ IsDigitStr(oid)
       \/ /\ Len(oid) = 16
          /\ IsDigitStr(SubSeq(oid, 1, 15))
          /\ oid[16] = "\n"

\* int(s) of a text of digits, as the decimal digits of the integer (an
\* order id is beyond the integers TLC counts with): int() strips the
\* whitespace and the value has no leading zero.
RECURSIVE DropZeros(_)
DropZeros(ds) ==
    IF Len(ds) > 1 /\ Head(ds) = "0" THEN DropZeros(Tail(ds)) ELSE ds

IntDigits(s) == DropZeros(Strip(s))

\* validate_date: strptime with day-month-year, strftime with
\* year-month-day; ValidationError for an empty text and for the ValueError
\* of strptime.  The day is one or two digits from 1 to 31 (a blank may
\* stand for the leading zero), the month one or two digits from 1 to 12,
\* the year four digits; the whole text must be consumed and the day must
\* exist in the month.  (Years from 1000 on: strftime then writes four
\* digits.)
ValidateDate(date_str) ==
    LET NonZero == Digit \ {"0"}
        dashes == {k \in 1..Len(date_str) : date_str[k] = "-"}
        d1 == CHOOSE k \in dashes : \A j \in dashes : k <= j
        d2 == CHOOSE k \in dashes : \A j \in dashes : j <= k
        dd == SubSeq(date_str, 1, d1 - 1)
        mm == SubSeq(date_str, d1 + 1, d2 - 1)
        yy == SubSeq(date_str, d2 + 1, Len(date_str))
        DayForm ==
            \/ Len(dd) = 1 /\ dd[1] \in NonZero
            \/ /\ Len(dd) = 2
               /\ \/ dd[1] = "3" /\ dd[2] \in {"0", "1"}
                  \/ dd[1] \in {"1", "2"} /\ dd[2] \in Digit
                  \/ dd[1] \in {"0", " "} /\ dd[2] \in NonZero
        MonthForm ==
            \/ Len(mm) = 1 /\ mm[1] \in NonZero
            \/ /\ Len(mm) = 2
               /\ \/ mm[1] = "1" /\ mm[2] \in {"0", "1", "2"}
                  \/ mm[1] = "0" /\ mm[2] \in NonZero
        YearForm == Len(yy) = 4 /\ IsDigitStr(yy)
        day == DigitsValue(Strip(dd))
        month == DigitsValue(mm)
        year == DigitsValue(yy)
        leap == year % 4 = 0 /\ (year % 100 # 0 \/ year % 400 = 0)
        DaysIn ==
            IF month = 2 THEN (IF leap THEN 29 ELSE 28)
            ELSE IF month \in {4, 6, 9, 11} THEN 30 ELSE 31
        Two(n) == <<ToString(n \div 10), ToString(n % 10)>>
        ok == /\ Truthy(date_str)
              /\ Cardinality(dashes) = 2
              /\ DayForm /\ MonthForm /\ YearForm
              /\ year >= 1 /\ day <= DaysIn
    IN  IF ok
        THEN Returned(Two(year \div 100) \o Two(year % 100) \o <<"-">>
                      \o Two(month) \o <<"-">> \o Two(day))
        ELSE Raised("ValidationError")

OrdersTable == [food |-> "food_orders", instamart |-> "instamart_orders"]

ItemsTable ==
    [food |-> "food_order_items", instamart |-> "instamart_order_items"]

Statement(stmt, table, oid, row) ==
    [stmt |-> stmt, table |-> table, order_id |-> oid, row |-> row]

\* validate_order_id(inv.order_id, ...); order_id = int(inv.order_id)
UpsertValidateOrderId ==
    /\ l_pc = "validate"
    /\ IF ValidateOrderId(l_inv.order_id)
       THEN /\ l_order_id' = IntDigits(l_inv.order_id)
            /\ l_pc' = "order"
            /\ l_exc' = l_exc
       ELSE /\ l_exc' = "ValidationError"
            /\ l_pc' = "raised"
            /\ l_order_id' = l_order_id
    /\ UNCHANGED <<normVars, sumVars, detailVars, dlVars, valVars, repVars, mainVars,
                   l_kind, l_inv,
                   l_item, l_log>>

\* cur.execute(INSERT INTO <orders> ... ON CONFLICT (order_id) DO UPDATE):
\* validate_date(inv.date_of_invoice) is evaluated with the arguments,
\* before the statement is executed.
UpsertOrderRow ==
    /\ l_pc = "order"
    /\ IF ValidateDate(l_inv.date_of_invoice).raised = "none"
       THEN /\ l_log' = Append(l_log,
                   Statement("upsert_order", OrdersTable[l_kind], l_order_id,
                       <<l_inv.invoice_no,
                         ValidateDate(l_inv.date_of_invoice).val>>))
            /\ l_pc' = "delete"
            /\ l_exc' = l_exc
       ELSE /\ l_exc' = "ValidationError"
            /\ l_pc' = "raised"
            /\ l_log' = l_log
    /\ UNCHANGED <<normVars, sumVars, detailVars, dlVars, valVars, repVars, mainVars,
                   l_kind, l_inv,
                   l_order_id, l_item>>

\* cur.execute(DELETE FROM <items> WHERE order_id = %s)
DeleteItems ==
    /\ l_pc = "delete"
    /\ l_log' = Append(l_log,
           Statement("delete_items", ItemsTable[l_kind], l_order_id, <<>>))
    /\ l_item' = 1
    /\ l_pc' = "items"
    /\ UNCHANGED <<normVars, sumVars, detailVars, dlVars, valVars, repVars, mainVars,
                   l_kind, l_inv,
                   l_exc, l_order_id>>

\* As InsertItem, going through the items from the last to the first.
InsertItemReversed ==
    /\ l_pc = "items" /\ l_item <= Len(l_inv.items)
    /\ l_log' = Append(l_log,
           Statement("insert_item", ItemsTable[l_kind], l_order_id,
               l_inv.items[Len(l_inv.items) - l_item + 1]))
    /\ l_item' = l_item + 1
    /\ UNCHANGED <<normVars, sumVars, detailVars, dlVars, valVars, repVars, mainVars,
                   l_kind, l_inv,
                   l_pc, l_exc, l_order_id>>

\* for item in inv.items: cur.execute(INSERT INTO <items> ...)
InsertItem ==
    /\ l_pc = "items" /\ l_item <= Len(l_inv.items)
    /\ l_log' = Append(l_log,
           Statement("insert_item", ItemsTable[l_kind], l_order_id,
               l_inv.items[l_item]))
    /\ l_item' = l_item + 1
    /\ UNCHANGED <<normVars, sumVars, detailVars, dlVars, valVars, repVars, mainVars,
                   l_kind, l_inv,
                   l_pc, l_exc, l_order_id>>

\* the item loop is over: upsert_food_order returns, upsert_instamart_order
\* goes on to the handling fee
ItemsDone ==
    /\ l_pc = "items" /\ l_item > Len(l_inv.items)
    /\ l_pc' = IF l_kind = "food" THEN "returned" ELSE "handling"
    /\ UNCHANGED <<normVars, sumVars, detailVars, dlVars, valVars, repVars, mainVars,
                   l_kind, l_inv,
                   l_exc, l_order_id, l_item, l_log>>

\* if inv.handling_fee: cur.execute(INSERT INTO instamart_handling_fees ...
\* ON CONFLICT (order_id) DO UPDATE), validate_date(hf.date_of_invoice)
\* being evaluated with the arguments; then the upsert returns.
UpsertHandlingFee ==
    /\ l_pc = "handling"
    /\ IF l_inv.handling_fee = <<>>
       THEN l_pc' = "returned" /\ l_exc' = l_exc /\ l_log' = l_log
       ELSE IF ValidateDate(l_inv.handling_fee[1].date_of_invoice).raised
                   = "none"
       THEN /\ l_log' = Append(l_log,
                   Statement("upsert_handling", "instamart_handling_fees",
                       l_order_id,
                       <<l_inv.handling_fee[1].invoice_no,
                         ValidateDate(
                             l_inv.handling_fee[1].date_of_invoice).val>>))
            /\ l_pc' = "returned"
            /\ l_exc' = l_exc
       ELSE /\ l_exc' = "ValidationError"
            /\ l_pc' = "raised"
            /\ l_log' = l_log
    /\ UNCHANGED <<normVars, sumVars, detailVars, dlVars, valVars, repVars, mainVars,
                   l_kind, l_inv,
                   l_order_id, l_item>>

NextLoad ==
    \/ UpsertValidateOrderId
    \/ UpsertOrderRow
    \/ DeleteItems
    \/ InsertItem
    \/ ItemsDone
    \/ UpsertHandlingFee

\* ---- invoices handed to the upserts: order ids as the extractors find
\* them (any run of digits, or none) and as other callers may pass them
LoadOrderIds ==
    {<<>>, <<"2", "3", "4", "5">>, <<"1", "2", "3", "4", "5", "6", "7", "8",
        "9", "0", "1", "2", "3", "4", "5">>, <<"0", "0", "0", "0", "0", "0",
        "0", "0", "0", "0", "0", "0", "0", "0", "1">>,
     <<"1", "2", "3", "4", "5", "6", "7", "8", "9", "0", "1", "2", "3", "4",
         "5", "6">>, <<"1", "2", "3", "4", "5", "6", "7", "8", "9", "0",
         "1", "2", "3", "4", "a">>, <<"1", "2", "3", "4", "5", "6", "7",
         "8", "9", "0", "1", "2", "3", "4", "5", "\n">>}

LoadDates ==
    {<<>>, <<"0", "9", "-", "0", "8", "-", "2", "0", "2", "5">>, <<"9", "-",
        "8", "-", "2", "0", "2", "5">>, <<"3", "1", "-", "0", "2", "-", "2",
        "0", "2", "5">>, <<"2", "9", "-", "0", "2", "-", "2", "0", "2", "4">>,
     <<"2", "0", "2", "5", "-", "0", "8", "-", "0", "9">>}

\* Items as (sr_no, description).
LoadItemPool == {<<1, <<"T", "e", "a">>>>, <<2, <<"B", "u", "n">>>>}

MaxLoadItems == 2

LoadHandlingFees ==
    {<<>>}
    \cup {<<[invoice_no |-> <<"H", "F", "9">>, date_of_invoice |-> d]>> :
             d \in {<<"0", "9", "-", "0", "8", "-", "2", "0", "2", "5">>,
                 <<"3", "1", "-", "0", "2", "-", "2", "0", "2", "5">>, <<>>}}

LoadInvoices(kind) ==
    [order_id : LoadOrderIds,
     invoice_no : {<<"F", "7">>},
     date_of_invoice : LoadDates,
     items : SeqsUpTo(LoadItemPool, MaxLoadItems),
     handling_fee : IF kind = "food" THEN {<<>>} ELSE LoadHandlingFees]

\* ---- SpecLoad: one call of upsert_food_order or upsert_instamart_order
InitLoad ==
    /\ NormIdle
    /\ SummaryIdle
    /\ DetailIdle
    /\ DlIdle
    /\ ValIdle
    /\ RepIdle
    /\ MainIdle
    /\ l_kind \in {"food", "instamart"}
    /\ l_inv \in LoadInvoices(l_kind)
    /\ l_pc = "validate"
    /\ l_exc = "none"
    /\ l_order_id = <<>>
    /\ l_item = 0
    /\ l_log = <<>>

SpecLoad == InitLoad /\ [][NextLoad]_vars

\* ---- The stored rows: what the statements executed so far leave in the
\* tables.  A row is kept with its table and its order id.
EmptyDb == [orders |-> {}, items |-> <<>>, fees |-> {}]

SameOrder(r, st) == r.table = st.table /\ r.order_id = st.order_id

StoredRow(st) ==
    [table |-> st.table, order_id |-> st.order_id, row |-> st.row]

\* INSERT ... ON CONFLICT (order_id) DO UPDATE replaces the row of the
\* order; DELETE ... WHERE order_id = removes the item rows of the order;
\* INSERT INTO <items> adds a row.
Execute(db, st) ==
    IF st.stmt = "upsert_order"
    THEN [db EXCEPT !.orders =
             {r \in @ : ~SameOrder(r, st)} \cup {StoredRow(st)}]
    ELSE IF st.stmt = "delete_items"
    THEN [db EXCEPT !.items = SelectSeq(@, LAMBDA r : ~SameOrder(r, st))]
    ELSE IF st.stmt = "insert_item"
    THEN [db EXCEPT !.items = Append(@, StoredRow(st))]
    ELSE [db EXCEPT !.fees =
             {r \in @ : ~SameOrder(r, st)} \cup {StoredRow(st)}]

RECURSIVE Stored(_)
Stored(log) ==
    IF log = <<>> THEN EmptyDb
    ELSE Execute(Stored(SubSeq(log, 1, Len(log) - 1)), log[Len(log)])

\* ---- SpecReload: upserts of one order, one after the other, on the same
\* connection.
MaxUpserts == 2

MaxReloadItems == 1

ReloadInvoices(kind) ==
    [order_id : {<<"1", "2", "3", "4", "5", "6", "7", "8", "9", "0", "1",
        "2", "3", "4", "5">>},
     invoice_no : {<<"F", "7">>, <<"F", "8">>},
     date_of_invoice : {<<"0", "9", "-", "0", "8", "-", "2", "0", "2", "5">>},
     items : SeqsUpTo(LoadItemPool, MaxReloadItems),
     handling_fee :
         IF kind = "food" THEN {<<>>}
         ELSE {<<>>}
              \cup {<<[invoice_no |-> <<"H", "F", "9">>,
                  date_of_invoice |-> d]>> :
                       d \in {<<"0", "9", "-", "0", "8", "-", "2", "0", "2",
                           "5">>, <<>>}}]

UpsertsBegun ==
    Cardinality({k \in 1..Len(l_log) : l_log[k].stmt = "upsert_order"})

\* The caller goes on to the next order after an upsert returned or raised
\* ValidationError (main.py: try / except ValidationError in the loop).
UpsertAgain ==
    /\ l_pc \in {"returned", "raised"}
    /\ UpsertsBegun < MaxUpserts
    /\ l_inv' \in ReloadInvoices(l_kind)
    /\ l_pc' = "validate"
    /\ l_exc' = "none"
    /\ l_order_id' = <<>>
    /\ l_item' = 0
    /\ UNCHANGED <<normVars, sumVars, detailVars, dlVars, valVars, repVars, mainVars,
                   l_kind, l_log>>

InitReload ==
    /\ NormIdle
    /\ SummaryIdle
    /\ DetailIdle
    /\ DlIdle
    /\ ValIdle
    /\ RepIdle
    /\ MainIdle
    /\ l_kind \in {"food", "instamart"}
    /\ l_inv \in ReloadInvoices(l_kind)
    /\ l_pc = "validate"
    /\ l_exc = "none"
    /\ l_order_id = <<>>
    /\ l_item = 0
    /\ l_log = <<>>

NextReload ==
    \/ NextLoad
    \/ UpsertAgain

SpecReload == InitReload /\ [][NextReload]_vars

----------------------------------------------------------------------------
(* The downloader: download_detail_pdfs                                    *)

\* out_dir / (order_id + .pdf): the directory being fixed by the call, a
\* file is known by its name.
FilePath(oid) == oid \o <<".", "p", "d", "f">>

\* file_path.exists() and file_path.stat().st_size > 0; the directory holds
\* a set of files, each a name with its bytes.
Cached(disk, path) ==
    \E f \in disk : f.name = path /\ Len(f.content) > 0

\* file_path.write_bytes(content): the file is created or replaced.
WriteBytes(disk, path, content) ==
    {f \in disk : f.name # path} \cup {[name |-> path, content |-> content]}

\* results[order.order_id] = file_path
SetResult(results, oid) ==
    {r \in results : r.order_id # oid}
    \cup {[order_id |-> oid, path |-> FilePath(oid)]}

\* The bodies a successful response may carry.
Bodies == {<<>>, <<"%", "P", "D", "F">>}

CurrentOrder == d_orders[d_i]

CurrentPath == FilePath(CurrentOrder.order_id)

InLoop == d_pc = "loop" /\ d_i <= Len(d_orders)

\* As DlCacheHit, without the count of skipped orders.
DlCacheHitUncounted ==
    /\ InLoop
    /\ Cached(d_disk, CurrentPath)
    /\ d_results' = SetResult(d_results, CurrentOrder.order_id)
    /\ d_i' = d_i + 1
    /\ UNCHANGED <<normVars, sumVars, detailVars, loadVars, valVars, repVars, mainVars,
                   d_orders, d_disk, d_pc, d_exc, d_skipped, d_downloaded,
                   d_failed, d_requests>>

\* The file is in the cache: no request, the order is counted as skipped.
DlCacheHit ==
    /\ InLoop
    /\ Cached(d_disk, CurrentPath)
    /\ d_results' = SetResult(d_results, CurrentOrder.order_id)
    /\ d_skipped' = d_skipped + 1
    /\ d_i' = d_i + 1
    /\ UNCHANGED <<normVars, sumVars, detailVars, loadVars, valVars, repVars, mainVars,
                   d_orders, d_disk, d_pc, d_exc, d_downloaded, d_failed,
                   d_requests>>

\* No cached file and no URL: the order is counted as failed.
DlNoUrlFirst ==
    /\ InLoop
    /\ ~Truthy(CurrentOrder.detail_url)
    /\ d_failed' = d_failed + 1
    /\ d_i' = d_i + 1
    /\ UNCHANGED <<normVars, sumVars, detailVars, loadVars, valVars, repVars, mainVars,
                   d_orders, d_disk, d_pc, d_exc, d_results, d_skipped,
                   d_downloaded, d_requests>>

DlNoUrl ==
    /\ InLoop
    /\ ~Cached(d_disk, CurrentPath)
    /\ ~Truthy(CurrentOrder.detail_url)
    /\ d_failed' = d_failed + 1
    /\ d_i' = d_i + 1
    /\ UNCHANGED <<normVars, sumVars, detailVars, loadVars, valVars, repVars, mainVars,
                   d_orders, d_disk, d_pc, d_exc, d_results, d_skipped,
                   d_downloaded, d_requests>>

\* The request succeeds: the body is written and the order is in the result.
DlDownloaded ==
    /\ InLoop
    /\ ~Cached(d_disk, CurrentPath)
    /\ Truthy(CurrentOrder.detail_url)
    /\ \E body \in Bodies :
           d_disk' = WriteBytes(d_disk, CurrentPath, body)
    /\ d_requests' = Append(d_requests, [order |-> d_i,
                                         url |-> CurrentOrder.detail_url])
    /\ d_results' = SetResult(d_results, CurrentOrder.order_id)
    /\ d_downloaded' = d_downloaded + 1
    /\ d_i' = d_i + 1
    /\ UNCHANGED <<normVars, sumVars, detailVars, loadVars, valVars, repVars, mainVars,
                   d_orders, d_pc, d_exc, d_skipped, d_failed>>

\* As DlHttpError, with a file left behind by the failed request.
DlHttpErrorWritingFile ==
    /\ InLoop
    /\ ~Cached(d_disk, CurrentPath)
    /\ Truthy(CurrentOrder.detail_url)
    /\ d_requests' = Append(d_requests, [order |-> d_i,
                                         url |-> CurrentOrder.detail_url])
    /\ d_disk' = WriteBytes(d_disk, CurrentPath, <<>>)
    /\ d_failed' = d_failed + 1
    /\ d_i' = d_i + 1
    /\ UNCHANGED <<normVars, sumVars, detailVars, loadVars, valVars, repVars, mainVars,
                   d_orders, d_pc, d_exc, d_results, d_skipped,
                   d_downloaded>>

\* client.get or raise_for_status raises an httpx.HTTPError: caught, the
\* order is counted as failed.
DlHttpError ==
    /\ InLoop
    /\ ~Cached(d_disk, CurrentPath)
    /\ Truthy(CurrentOrder.detail_url)
    /\ d_requests' = Append(d_requests, [order |-> d_i,
                                         url |-> CurrentOrder.detail_url])
    /\ d_failed' = d_failed + 1
    /\ d_i' = d_i + 1
    /\ UNCHANGED <<normVars, sumVars, detailVars, loadVars, valVars, repVars, mainVars,
                   d_orders, d_disk, d_pc, d_exc, d_results, d_skipped,
                   d_downloaded>>

\* client.get raises an exception that is no httpx.HTTPError (an
\* httpx.InvalidURL): the except clause does not match and the exception
\* leaves download_detail_pdfs.
DlGetRaises ==
    /\ InLoop
    /\ ~Cached(d_disk, CurrentPath)
    /\ Truthy(CurrentOrder.detail_url)
    /\ d_requests' = Append(d_requests, [order |-> d_i,
                                         url |-> CurrentOrder.detail_url])
    /\ d_exc' = "InvalidURL"
    /\ d_pc' = "raised"
    /\ UNCHANGED <<normVars, sumVars, detailVars, loadVars, valVars, repVars, mainVars,
                   d_orders, d_disk, d_i, d_results, d_skipped, d_downloaded,
                   d_failed>>

\* return results
DlReturn ==
    /\ d_pc = "loop" /\ d_i > Len(d_orders)
    /\ d_pc' = "returned"
    /\ UNCHANGED <<normVars, sumVars, detailVars, loadVars, valVars, repVars, mainVars,
                   d_orders, d_disk, d_exc, d_i, d_results, d_skipped,
                   d_downloaded, d_failed, d_requests>>

NextDl ==
    \/ DlCacheHit
    \/ DlNoUrl
    \/ DlDownloaded
    \/ DlHttpError
    \/ DlGetRaises
    \/ DlReturn

\* ---- inputs of the downloader
MaxOrders == 2

DlOrderIds == {<<"1", "2", "3", "4", "5", "6", "7", "8", "9", "0", "1", "2",
    "3", "4", "5">>, <<"0", "0", "0", "0", "0", "0", "0", "0", "0", "0",
    "0", "0", "0", "0", "1">>}

DlOrders ==
    {[order_id |-> oid, detail_url |-> u] :
        oid \in DlOrderIds, u \in {<<>>, UriOf(1)}}

\* What the cache directory may hold before the call: for each order id no
\* file, an empty file or a file with bytes.
DlDisks ==
    {{[name |-> FilePath(oid), content |-> c[oid]] :
         oid \in {o \in DlOrderIds : c[o] # None}} :
        c \in [DlOrderIds -> {None, <<>>, <<"o", "l", "d">>}]}

InitDl ==
    /\ NormIdle /\ SummaryIdle /\ DetailIdle
    /\ LoadIdle /\ ValIdle /\ RepIdle /\ MainIdle
    /\ d_orders \in SeqsUpTo(DlOrders, MaxOrders)
    /\ d_disk \in DlDisks
    /\ d_pc = "loop"
    /\ d_exc = "none"
    /\ d_i = 1
    /\ d_results = {}
    /\ d_skipped = 0
    /\ d_downloaded = 0
    /\ d_failed = 0
    /\ d_requests = <<>>

SpecDl == InitDl /\ [][NextDl]_vars

----------------------------------------------------------------------------
(* main.py: the loop of process_food and process_instamart over the        *)
(* orders of one summary                                                    *)

\* b"%PDF-"
PdfMagic == <<"%", "P", "D", "F", "-">>

\* f.read(n) on a file just opened: the first n bytes, fewer if it is shorter
ReadBytes(bytes, n) ==
    SubSeq(bytes, 1, IF Len(bytes) < n THEN Len(bytes) ELSE n)

\* validate_pdf_file(path); file is <<>> when nothing is at the path and
\* <<bytes>> otherwise.  TRUE when it raises ValidationError.
ValidatePdfFile(file) ==
    IF Len(file) = 0 THEN TRUE
    ELSE IF Len(file[1]) = 0 THEN TRUE
    ELSE ReadBytes(file[1], 5) # PdfMagic

\* What the loop meets for one order:
\*   path    whether detail_files.get(order.order_id) is a path
\*   file    what is at that path
\*   parsed  what the detail extractor does on it: it raises, returns None,
\*           returns an invoice whose order_id is empty, or an invoice
\*   upsert  what the upsert does: it returns, raises ValidationError, or
\*           raises an error of the database
\* A step the loop does not reach for the order has "unreached".
MainFiles ==
    {<<>>, << <<>> >>, << <<"%", "P", "D", "F">> >>,
     << <<"<", "h", "t", "m", "l", ">">> >>,
     << <<"%", "P", "D", "F", "-", "1">> >>}

MainOrderFacts ==
    {f \in [path : BOOLEAN,
            file : MainFiles,
            parsed : {"unreached", "raises", "None", "no_order_id", "invoice"},
            upsert : {"unreached", "ok", "ValidationError", "DatabaseError"}] :
        /\ (~f.path) => f.file = <<>>
        /\ (f.parsed = "unreached") <=> (~f.path \/ ValidatePdfFile(f.file))
        /\ (f.upsert = "unreached") <=> (f.parsed # "invoice")}

MainCurrent == m_orders[m_i]

MainInLoop == m_pc = "loop" /\ m_i \in 1..Len(m_orders)

\* The iteration is left by an exception the loop does not catch.
MainRaises(f) ==
    /\ f.path
    /\ ~ValidatePdfFile(f.file)
    /\ \/ f.parsed = "raises"
       \/ f.parsed = "invoice" /\ f.upsert = "DatabaseError"

\* As MainOrder, but an order whose detail is not extracted is passed over
\* without being counted.
MainOrderSkipUncounted ==
    /\ MainInLoop
    /\ ~MainRaises(MainCurrent)
    /\ LET f == MainCurrent
       IN  IF ~f.path
               THEN m_failed' = m_failed + 1 /\ m_loaded' = m_loaded
           ELSE IF ValidatePdfFile(f.file)
               THEN m_failed' = m_failed + 1 /\ m_loaded' = m_loaded
           ELSE IF f.parsed = "None" \/ f.parsed = "no_order_id"
               THEN m_failed' = m_failed /\ m_loaded' = m_loaded
           ELSE IF f.upsert = "ok"
               THEN m_loaded' = m_loaded + 1 /\ m_failed' = m_failed
           ELSE m_failed' = m_failed + 1 /\ m_loaded' = m_loaded
    /\ m_i' = m_i + 1
    /\ UNCHANGED <<normVars, sumVars, detailVars, loadVars, dlVars, valVars,
                   repVars, m_orders, m_pc>>

\* One iteration of the loop that ends at its bottom or at a continue.
MainOrder ==
    /\ MainInLoop
    /\ ~MainRaises(MainCurrent)
    /\ LET f == MainCurrent
       IN  IF ~f.path
               THEN m_failed' = m_failed + 1 /\ m_loaded' = m_loaded
           ELSE IF ValidatePdfFile(f.file)
               THEN m_failed' = m_failed + 1 /\ m_loaded' = m_loaded
           ELSE IF f.parsed = "None" \/ f.parsed = "no_order_id"
               THEN m_failed' = m_failed + 1 /\ m_loaded' = m_loaded
           ELSE IF f.upsert = "ok"
               THEN m_loaded' = m_loaded + 1 /\ m_failed' = m_failed
           ELSE m_failed' = m_failed + 1 /\ m_loaded' = m_loaded
    /\ m_i' = m_i + 1
    /\ UNCHANGED <<normVars, sumVars, detailVars, loadVars, dlVars, valVars,
                   repVars, m_orders, m_pc>>

\* An iteration that the extractor or the upsert leaves by an exception
\* other than ValidationError: it propagates out of the function.
MainOrderRaises ==
    /\ MainInLoop
    /\ MainRaises(MainCurrent)
    /\ m_pc' = "raised"
    /\ UNCHANGED <<normVars, sumVars, detailVars, loadVars, dlVars, valVars,
                   repVars, m_orders, m_i, m_loaded, m_failed>>

\* conn.commit() after the loop
MainCommit ==
    /\ m_pc = "loop"
    /\ m_i > Len(m_orders)
    /\ m_pc' = "committed"
    /\ UNCHANGED <<normVars, sumVars, detailVars, loadVars, dlVars, valVars,
                   repVars, m_orders, m_i, m_loaded, m_failed>>

NextMain == MainOrder \/ MainOrderRaises \/ MainCommit

MaxMainOrders == 3

\* loaded = 0, failed = 0, and the loop at the first of summary.orders
InitMain ==
    /\ NormIdle
    /\ SummaryIdle
    /\ DetailIdle
    /\ LoadIdle /\ DlIdle /\ ValIdle /\ RepIdle
    /\ m_orders \in SeqsUpTo(MainOrderFacts, MaxMainOrders)
    /\ m_pc = "loop"
    /\ m_i = 1
    /\ m_loaded = 0
    /\ m_failed = 0

SpecMain == InitMain /\ [][NextMain]_vars

----------------------------------------------------------------------------
(* Claims about the summary extractor and the normalizers                  *)

\* What the normalizer contract asks for a token: zero for an absent token
\* and for one that is no number once the glyph, the separators and the
\* surrounding whitespace are gone; the number otherwise.
NormalizedValue(tok) ==
    IF IsNone(tok) THEN Zero
    ELSE LET f == PyFloat(Strip(RemoveChar(RemoveChar(tok, Rupee), ",")))
         IN  IF f.ok THEN f.val ELSE Zero

\* The row groups of one page as the specification describes them: a date
\* line, the order-id line right after it, then the first amount line; one
\* "View" line after the amount belongs to the group; the next group is
\* looked for after the end of this one, and a date line with no order-id
\* line after it is passed by one line.
FirstAmountFrom(L, k) ==
    IF \E a \in k..Len(L) : MatchAmount(L[a])
    THEN CHOOSE a \in k..Len(L) :
            MatchAmount(L[a]) /\ \A b \in k..(a - 1) : ~MatchAmount(L[b])
    ELSE 0

RECURSIVE GroupsFrom(_, _)
GroupsFrom(L, k) ==
    IF k > Len(L) THEN <<>>
    ELSE LET a == FirstAmountFrom(L, k + 2)
         IN  IF /\ MatchDate(L[k])
                /\ k + 1 <= Len(L) /\ MatchOrderId(L[k + 1])
                /\ a # 0
             THEN <<[date |-> L[k], order_id |-> L[k + 1],
                     amount |-> NormalizedValue(L[a])]>>
                  \o GroupsFrom(L, IF a + 1 <= Len(L) /\ L[a + 1] = ViewMarker
                                   THEN a + 2 ELSE a + 1)
             ELSE GroupsFrom(L, k + 1)

StrippedLines(L) == [k \in 1..Len(L) |-> Strip(L[k])]

ExpectedGroups(d) ==
    Flatten([p \in 1..Len(d) |-> GroupsFrom(StrippedLines(d[p]), 1)])

RowKeys(rs) ==
    [k \in 1..Len(rs) |->
        [date |-> rs[k].date, order_id |-> rs[k].order_id,
         amount |-> rs[k].amount]]

\* _extract_order_rows has returned, or was left by an exception.
ScanEnded == s_pc \in {"build", "finally"}

\* C1: for any page lines the row scan emits exactly one row per group
\* (date line, order-id line right after it, name lines, first amount
\* line), in order of appearance, carrying that date, order id and parsed
\* amount; a date and order id that no amount follows emit no row.
C1_OneRowPerGroup ==
    ScanEnded => s_exc = "none" /\ RowKeys(rows) = ExpectedGroups(doc)

\* The k-th hyperlink of the document that has a uri.
UriPositions == {q \in 1..Len(links) : links[q].has_uri}

KthUri(k) ==
    links[CHOOSE q \in UriPositions :
            Cardinality({r \in UriPositions : r <= q}) = k].uri

\* The row scan ran to the end of the last page.
ScanCompleted == page = Len(doc) /\ i > Len(Lines)

\* C2: hyperlink correlation is index for index: one OrderRow per extracted
\* row, in order; the i-th OrderRow has the i-th hyperlink, or the empty
\* string past the hyperlink count; a count mismatch warns and never fails.
C2_IndexForIndex ==
    (ScanCompleted /\ s_pc \in {"finally", "returned", "raised"}) =>
        /\ s_exc = "none"
        /\ Len(summary) = 1
        /\ Len(summary[1].orders) = Len(rows)
        /\ \A k \in 1..Len(rows) :
            LET o == summary[1].orders[k]
            IN  /\ o.date = rows[k].date
                /\ o.order_id = rows[k].order_id
                /\ o.name = rows[k].name
                /\ o.amount = rows[k].amount
                /\ o.detail_url = IF k <= Cardinality(UriPositions)
                                  THEN KthUri(k) ELSE <<>>
        /\ warned = (Cardinality(UriPositions) # Len(rows))

\* Two rows and one hyperlink: the first OrderRow is below the hyperlink
\* count, the second past it, and the record is returned with the warning.
C2_Witness ==
    /\ s_pc = "returned"
    /\ Len(rows) = 2
    /\ Cardinality(UriPositions) = 1
    /\ Len(links) = 2
    /\ warned

HasFood == Contains(Lower(file_name), FoodWord)
HasInstamart == Contains(Lower(file_name), InstamartWord)

\* parse_summary was left by the type-undetectable error: nothing was
\* opened and no record exists.
TypeUndetectable ==
    /\ s_pc = "raised" /\ s_exc = "ValueError"
    /\ handle.opened = 0
    /\ summary = <<>>

\* C3 as stated: detection succeeds only when the name holds the substring
\* of exactly one of the two order types, and returns that type; with
\* neither or both, extraction fails as type-undetectable.
C3_ExactlyOneType ==
    s_pc # "detect" =>
        IF HasFood /\ ~HasInstamart THEN order_type = "food"
        ELSE IF HasInstamart /\ ~HasFood THEN order_type = "instamart"
        ELSE TypeUndetectable

\* C3 as amended: case-insensitively, a name that holds "food" is a food
\* summary whether or not it also holds "instamart"; a name that holds
\* "instamart" and not "food" is an instamart summary; only a name holding
\* neither fails as type-undetectable, and then no record is produced.
C3_FoodFirst ==
    s_pc # "detect" =>
        IF HasFood THEN order_type = "food" /\ ~TypeUndetectable
        ELSE IF HasInstamart THEN order_type = "instamart" /\ ~TypeUndetectable
        ELSE TypeUndetectable

\* A name holding both substrings was taken for a food summary and parsed.
C3_Witness ==
    /\ HasFood /\ HasInstamart
    /\ s_pc = "returned"
    /\ summary # <<>> /\ summary[1].order_type = "food"

\* C4: with a detectable order type (and a file that opens) parse_summary
\* produces a record for every page content: an unparsable header value or
\* amount gives defaults, never a raised error.
C4_OnlyTypeFailureIsHard ==
    s_pc = "raised" => ~DetectOrderType(file_name).ok \/ ~openable

\* C5: each normalizer is total: zero for an absent, empty or unparsable
\* token, never an exception, and the number for a well-formed token.
C5_NormalizerTotal ==
    norm_pc \notin {"idle", "call"} =>
        norm_out.raised = "none" /\ norm_out.val = NormalizedValue(norm_in)

----------------------------------------------------------------------------
(* Claims about the detail extractors                                      *)

\* parse_instamart_detail has returned an InstamartInvoice.
ImReturnedRecord == im_pc = "returned" /\ im_result # <<>>

\* The item loop of page 1 has run off the table.
ImScanDone ==
    /\ Len(im_pages) >= 1 /\ im_pages[1] # <<>>
    /\ im_row > Len(im_pages[1][1])

\* A row whose first cell is numeric once a trailing period is stripped.
NumericRow(row) == Len(row) > 0 /\ IsSerial(row[1])

NumericRowsIn(table, a, b) == SelectSeq(SubSeq(table, a, b), NumericRow)

\* C6: a returned InstamartInvoice has a null handling_fee exactly when the
\* document has a single page, and the page count test is no error: a
\* single-page document whose page 1 was scanned to its end raises nothing.
C6_HandlingNullIffSinglePage ==
    /\ ImReturnedRecord =>
           (im_result[1].handling_fee = <<>> <=> Len(im_pages) = 1)
    /\ (Len(im_pages) = 1 /\ ImScanDone) => im_exc = "none"

\* A document of two or more pages gave a record with a handling fee.
C6_Witness ==
    /\ ImReturnedRecord
    /\ Len(im_pages) >= 2
    /\ im_result[1].handling_fee # <<>>

\* The table of page 2 has no row whose first cell is numeric.
NoNumericRow(table) == \A k \in 1..Len(table) : ~NumericRow(table[k])

\* Page 2 has a table with a header row, no row without cells, and a tax
\* row, if any, whose rates are numbers.
Page2WellFormed ==
    /\ Len(im_pages) >= 2 /\ im_pages[2] # <<>>
    /\ LET table2 == im_pages[2][1]
           tax    == FindRow(table2, {Label.taxes, Label.cgst})
       IN  /\ Len(table2) >= 3
           /\ \A k \in 1..Len(table2) : Len(table2[k]) > 0
           /\ tax.found => ParseHandlingTax(tax.text).raised = "none"

\* C7: when page 2 has no row with a numeric first cell, the HandlingFee
\* is still built: its description is "Handling Fees for Order " followed
\* by the order id recovered from page 1, its unit_price, discount and
\* net_assessable_value are zero, and on a well-formed page 2 the missing
\* item row raises nothing.
C7_ZeroFeeSynthesized ==
    /\ (ImReturnedRecord /\ Len(im_pages) >= 2
            /\ NoNumericRow(im_pages[2][1])) =>
           LET fee == im_result[1].handling_fee
           IN  /\ fee # <<>>
               /\ fee[1].description = Label.handling_fees_for \o im_result[1].order_id
               /\ Contains(fee[1].description, im_result[1].order_id)
               /\ fee[1].unit_price = Zero
               /\ fee[1].discount = Zero
               /\ fee[1].net_assessable_value = Zero
    /\ (ImScanDone /\ Page2WellFormed /\ NoNumericRow(im_pages[2][1])) =>
           im_exc = "none"

\* A zero-fee invoice was built for a document whose page 1 holds an order
\* id.
C7_Witness ==
    /\ ImReturnedRecord
    /\ Len(im_pages) >= 2
    /\ NoNumericRow(im_pages[2][1])
    /\ im_result[1].order_id # <<>>
    /\ im_result[1].handling_fee # <<>>

\* A record was returned for a document whose page 2 has no handling-fee
\* item row.
ZeroFeeInvoice ==
    /\ ImReturnedRecord
    /\ Len(im_pages) >= 2
    /\ \A k \in 4..Len(im_pages[2][1]) : ~NumericRow(im_pages[2][1][k])

\* What the tax block of page 2 states: the default of every field when
\* there is no tax row.
Page2TaxBlock ==
    LET tax == FindRow(im_pages[2][1], {Label.taxes, Label.cgst})
    IN  IF tax.found THEN ParseHandlingTax(tax.text).val ELSE NoTaxes

\* C8: with no handling-fee item row on page 2 every monetary field of the
\* HandlingFee is zero, whatever the tax block of page 2 contains.
C8_AllMonetaryZero ==
    ZeroFeeInvoice =>
        LET fee == im_result[1].handling_fee[1]
        IN  /\ fee.unit_price = Zero
            /\ fee.discount = Zero
            /\ fee.net_assessable_value = Zero
            /\ fee.cgst_amount = Zero
            /\ fee.sgst_amount = Zero
            /\ fee.state_cess_amount = Zero
            /\ fee.total_taxes = Zero
            /\ fee.invoice_total = Zero

\* C8 as amended: with no handling-fee item row on page 2 the unit_price,
\* discount and net_assessable_value of the HandlingFee are zero, and its
\* cgst_amount, sgst_amount, state_cess_amount, total_taxes and
\* invoice_total are the amounts the tax block of page 2 states, each zero
\* only when the block does not state it or page 2 has no tax row.
C8_TaxAmountsFromBlock ==
    ZeroFeeInvoice =>
        LET fee == im_result[1].handling_fee[1]
        IN  /\ fee.unit_price = Zero
            /\ fee.discount = Zero
            /\ fee.net_assessable_value = Zero
            /\ fee.cgst_amount = Page2TaxBlock.cgst_amount
            /\ fee.sgst_amount = Page2TaxBlock.sgst_amount
            /\ fee.state_cess_amount = Page2TaxBlock.state_cess_amount
            /\ fee.total_taxes = Page2TaxBlock.total_taxes
            /\ fee.invoice_total = Page2TaxBlock.invoice_total

\* A zero-fee invoice whose tax block states taxes.
C8_Witness ==
    /\ ZeroFeeInvoice
    /\ im_result[1].handling_fee[1].cgst_amount # Zero
    /\ im_result[1].handling_fee[1].invoice_total # Zero

\* The sentinel rows of the two item scans.
FoodSentinelRow(row) ==
    \/ Len(row) >= 2 /\ Truthy(row[2]) /\ Strip(row[2]) = Label.subtotal
    \/ Len(row) >= 1 /\ Truthy(row[1]) /\ Contains(row[1], Label.subtotal)

ImSentinelRow(row) ==
    /\ Len(row) >= 1 /\ Truthy(row[1])
    /\ \/ Contains(row[1], Label.invoice_value)
       \/ Contains(row[1], Label.amount_in_words)

\* The index of the first sentinel row at or after the first scanned row,
\* one past the table when there is none.
FoodFirstSentinel ==
    LET S == {k \in 5..Len(f_tables[1]) : FoodSentinelRow(f_tables[1][k])}
    IN  IF S = {} THEN Len(f_tables[1]) + 1 ELSE Least(S)

ImFirstSentinel ==
    LET S == {k \in 4..Len(im_pages[1][1]) : ImSentinelRow(im_pages[1][1][k])}
    IN  IF S = {} THEN Len(im_pages[1][1]) + 1 ELSE Least(S)

FoodItemsOf(rs) == [k \in 1..Len(rs) |-> FoodItemOf(rs[k])]

ImItemsOf(rs) == [k \in 1..Len(rs) |-> InstamartItemOf(rs[k])]

Smaller(a, b) == IF a <= b THEN a ELSE b

\* The food scan stops at the first Subtotal row: at every point of the
\* scan the items are the numeric rows met so far, none of them at or
\* after the first Subtotal row.
FoodStopsAtSubtotal ==
    f_row >= 5 =>
        f_items = FoodItemsOf(NumericRowsIn(f_tables[1], 5,
                      Smaller(f_row, FoodFirstSentinel) - 1))

FoodReturnedRecord == f_pc = "returned" /\ f_result # <<>>

\* C10: the items of a FoodInvoice are the rows with a numeric first cell,
\* in table order, from the row after the column-header row up to the
\* first Subtotal row; its subtotal is the normalized last cell of that
\* Subtotal row, and zero when the table has no Subtotal row.
C10_FoodItemsAndSubtotal ==
    FoodReturnedRecord =>
        /\ f_result[1].items =
               FoodItemsOf(NumericRowsIn(f_tables[1], 5,
                   FoodFirstSentinel - 1))
        /\ f_result[1].subtotal =
               IF FoodFirstSentinel <= Len(f_tables[1])
               THEN NormalizedValue(LastCell(f_tables[1][FoodFirstSentinel]))
               ELSE Zero

\* A FoodInvoice with an item, a subtotal that is not zero, and a numeric
\* row behind the Subtotal row that is no item.
C10_Witness ==
    /\ FoodReturnedRecord
    /\ f_result[1].items # <<>>
    /\ f_result[1].subtotal # Zero
    /\ \E k \in (FoodFirstSentinel + 1)..Len(f_tables[1]) :
           NumericRow(f_tables[1][k])

----------------------------------------------------------------------------
(* Claims about failures of the detail extractors                          *)

FoodEnded == f_pc \in {"returned", "raised"}

\* C11: parse_food_detail returns a null result, and builds no FoodInvoice,
\* whenever page 1 has no table or its first table has fewer than 8 rows:
\* such a call scans no row, raises nothing and ends returning None. A table
\* of at least 8 rows passes the shape check: the call never returns None,
\* it ends with a record or with the exception of a later step.
C11_ShapeCheck ==
    /\ (f_openable /\ (f_tables = <<>> \/ Len(f_tables[1]) < 8)) =>
           /\ f_pc \in {"open", "shape", "finally", "returned"}
           /\ f_result = <<>>
           /\ f_exc = "none"
           /\ f_items = <<>> /\ f_row = 0
    /\ (f_openable /\ f_tables # <<>> /\ Len(f_tables[1]) >= 8) =>
           /\ f_pc = "finally" => (f_result # <<>> \/ f_exc # "none")
           /\ f_pc = "returned" => f_result # <<>>

\* A table of 7 rows was refused, and the call returned None.
C11_Witness ==
    /\ f_pc = "returned" /\ f_openable
    /\ f_tables # <<>> /\ Len(f_tables[1]) = 7
    /\ f_result = <<>>
    /\ f_handle.opened = 1

\* Page 1 has no table, its table has no row 1 for the header, or a page 2
\* that is there has no table or no row 2 for the header.
ImStructuralFailure ==
    \/ im_pages[1] = <<>>
    \/ Len(im_pages[1][1]) < 2
    \/ /\ Len(im_pages) >= 2
       /\ (im_pages[2] = <<>> \/ Len(im_pages[2][1]) < 3)

\* C12: a structural failure in parse_instamart_detail follows the food
\* extractor's contract: when page 1 has no table, the table is too short
\* to hold the header row, or a present page 2 has no table or no header
\* row, the call raises nothing and returns None.
C12_StructuralFailureReturnsNull ==
    (im_openable /\ ImStructuralFailure) =>
        /\ im_exc = "none"
        /\ im_pc # "raised"
        /\ im_pc = "returned" => im_result = <<>>

\* C13: no detail extractor call raises to its caller: parse_food_detail and
\* parse_instamart_detail end by returning a record or None for every table
\* artifact, a malformed cell of an item row (a quantity that is no integer,
\* an absent cell, a row shorter than the column layout) defaulting the
\* field instead of aborting the document. The instamart documents with a
\* structural failure, which C12 is about, are left aside here.
C13_NoDetailCallRaises ==
    /\ f_exc = "none" /\ f_pc # "raised"
    /\ (im_openable /\ ~ImStructuralFailure) =>
           (im_exc = "none" /\ im_pc # "raised")

\* C14: in all three extractors a failure to open the document is caught
\* locally: the call returns None and no exception goes out to the caller.
\* (For parse_summary the open comes after the order type was detected.)
C14_OpenFailureCaught ==
    /\ (~openable /\ order_type # "none" /\ s_pc # "open") =>
           (s_pc = "returned" /\ s_exc = "none" /\ summary = <<>>)
    /\ (~f_openable /\ f_pc \notin {"idle", "open"}) =>
           (f_pc = "returned" /\ f_exc = "none" /\ f_result = <<>>)
    /\ (~im_openable /\ im_pc \notin {"idle", "open"}) =>
           (im_pc = "returned" /\ im_exc = "none" /\ im_result = <<>>)

SummaryEnded == s_pc \in {"returned", "raised"}

ImEnded == im_pc \in {"returned", "raised"}

\* A handle is opened at most once, closed only after it was opened and at
\* most once, and closed as often as opened once the call has ended.
HandleClosedOnce(h, ended) ==
    /\ h.opened \in {0, 1}
    /\ h.closed \in {0, 1}
    /\ h.closed <= h.opened
    /\ ended => h.closed = h.opened

\* C15: once an extractor has opened a document, the handle is closed
\* exactly once before the call returns, on every path: the return of a
\* record, the early return of None on a structural failure, and an
\* exception raised while extracting. No call ends with an open handle, no
\* handle is closed twice or before it was opened, and a call that opened
\* nothing closes nothing.
C15_ClosedExactlyOnce ==
    /\ HandleClosedOnce(handle, SummaryEnded)
    /\ HandleClosedOnce(f_handle, FoodEnded)
    /\ HandleClosedOnce(im_handle, ImEnded)

\* An exception raised while extracting went out after the handle was
\* closed.
C15_Witness ==
    /\ im_pc = "raised" /\ im_exc = "ValueError"
    /\ im_handle = [opened |-> 1, closed |-> 1]

----------------------------------------------------------------------------
(* Claims about the loader, the validators and the downloader              *)

\* A text of exactly 15 digits.
FifteenDigits(t) == Len(t) = 15 /\ IsDigitStr(t)

----------------------------------------------------------------------------
(* Claims about the summary header                                         *)

SummaryReturned == s_pc = "returned" /\ summary # <<>>

\* The lines of page 1 that hold a label and have the value lines after
\* them: five lines after Customer Name, three after Email.
CustomerLabelLines ==
    {k \in 1..Len(doc[1]) :
        Strip(doc[1][k]) = CustomerNameLabel /\ Len(doc[1]) - k >= 5}

EmailLabelLines ==
    {k \in 1..Len(doc[1]) :
        Strip(doc[1][k]) = EmailLabel /\ Len(doc[1]) - k >= 3}

Last(S) == CHOOSE k \in S : \A j \in S : j <= k

\* C17: summary header extraction is positional.  When the label line
\* Customer Name is found with at least five lines after it, customer_name,
\* the declared count and the declared total of the record are the lines 3,
\* 4 and 5 after it (stripped, as integer, as amount); when Email is found
\* with at least three lines after it, customer_email and date_range are
\* the lines 2 and 3 after it; a label that is absent leaves its fields at
\* the defaults: empty text, 0, 0.0.  Of several such label lines the last
\* one counts.
C17_HeaderPositional ==
    SummaryReturned =>
        /\ IF CustomerLabelLines = {}
           THEN /\ summary[1].customer_name = <<>>
                /\ summary[1].number_of_orders = 0
                /\ summary[1].total_amount = Zero
           ELSE LET k == Last(CustomerLabelLines)
                IN  /\ summary[1].customer_name = Strip(doc[1][k + 3])
                    /\ PyInt(doc[1][k + 4]).ok
                    /\ summary[1].number_of_orders = PyInt(doc[1][k + 4]).val
                    /\ summary[1].total_amount
                           = ParseAmount(Strip(doc[1][k + 5])).val
        /\ IF EmailLabelLines = {}
           THEN /\ summary[1].customer_email = <<>>
                /\ summary[1].date_range = <<>>
           ELSE LET k == Last(EmailLabelLines)
                IN  /\ summary[1].customer_email = Strip(doc[1][k + 2])
                    /\ summary[1].date_range = Strip(doc[1][k + 3])

\* A record came back with the name, count and total of the header lines.
C17_Witness ==
    /\ SummaryReturned
    /\ CustomerLabelLines # {} /\ EmailLabelLines # {}
    /\ summary[1].customer_name = JohnDoe
    /\ summary[1].number_of_orders = 2
    /\ summary[1].customer_email = JohnEmail

\* The count the header of page 1 declares, 0 without one.
DeclaredCount ==
    IF CustomerLabelLines = {} THEN 0
    ELSE PyInt(doc[1][Last(CustomerLabelLines) + 4]).val

\* C18: the declared order count of a SummaryRecord is the value read from
\* the header and is never changed to the number of extracted rows: when
\* they differ, parse_summary still returns the record with the declared
\* count and with every extracted row, in order; validate_summary_counts
\* only reports: it returns True when the two are equal, False with a
\* warning when not, raises nothing and leaves the record as it was.
C18_DeclaredCountKept ==
    /\ SummaryReturned =>
           /\ summary[1].number_of_orders = DeclaredCount
           /\ Len(summary[1].orders) = Len(rows)
           /\ \A k \in 1..Len(rows) :
                  /\ summary[1].orders[k].date = rows[k].date
                  /\ summary[1].orders[k].order_id = rows[k].order_id
                  /\ summary[1].orders[k].name = rows[k].name
                  /\ summary[1].orders[k].amount = rows[k].amount
    /\ v_counts # <<>> =>
           /\ SummaryReturned /\ s_exc = "none"
           /\ v_counts[1].result = (Len(rows) = DeclaredCount)
           /\ v_counts[1].warned = ~v_counts[1].result

\* A header declaring 2 orders over one extracted row: the mismatch was
\* reported and the record still says 2 and holds the row.
C18_Witness ==
    /\ v_counts # <<>> /\ ~v_counts[1].result /\ v_counts[1].warned
    /\ summary[1].number_of_orders = 2
    /\ Len(summary[1].orders) = 1

----------------------------------------------------------------------------
(* Claims about repeated extraction                                        *)

\* C19: extraction is deterministic and stateless: an extractor run twice
\* on the same artifacts (file name, page lines, hyperlinks, table cells),
\* with or without other extraction calls between the two runs, ends both
\* times the same way, with identical records; no call's result depends on
\* what an earlier call left behind.
C19_SameArtifactsSameRecord ==
    (r_phase = "second" /\ CallEnded) => CallOutcome = r_first[1]

\* parse_summary returned a record with a row, for the second time, a call
\* of another extractor having run in between.
C19_Witness ==
    /\ r_phase = "second" /\ CallEnded /\ r_others = 1
    /\ r_active = "parse_summary"
    /\ s_exc = "none" /\ Len(summary[1].orders) = 1
    /\ r_first = <<CallOutcome>>

----------------------------------------------------------------------------
(* Claims about the downloader                                             *)

\* C20: download_detail_pdfs uses the on-disk cache first: when the order
\* being processed has its file in the directory with a size above zero,
\* the step issues no HTTP request and leaves the files alone, and the
\* result then maps the order id to that path, with or without a detail
\* URL; an entry of the result stays in the result.
C20_CacheFirst ==
    [][/\ (InLoop /\ \E f \in d_disk : /\ f.name = CurrentPath
                                        /\ Len(f.content) > 0)
            => /\ d_requests' = d_requests
               /\ d_disk' = d_disk
               /\ d_i' = d_i + 1
               /\ [order_id |-> CurrentOrder.order_id,
                   path |-> CurrentPath] \in d_results'
       /\ d_results \subseteq d_results']_vars

\* The call returned; an order without a URL had its file in the cache, is
\* in the result and no request was made for it, while a request was made
\* for another order.
C20_Witness ==
    /\ d_pc = "returned"
    /\ d_requests # <<>>
    /\ \E k \in 1..Len(d_orders) :
          /\ d_orders[k].detail_url = <<>>
          /\ [name |-> FilePath(d_orders[k].order_id),
              content |-> <<"o", "l", "d">>] \in d_disk
          /\ [order_id |-> d_orders[k].order_id,
              path |-> FilePath(d_orders[k].order_id)] \in d_results
          /\ \A n \in 1..Len(d_requests) : d_requests[n].order # k

\* The order being processed fails: it has no cached file and no URL, or
\* its request was made and the order was counted as failed (an
\* httpx.HTTPError).
DlFailureStep ==
    /\ InLoop
    /\ ~\E f \in d_disk : f.name = CurrentPath /\ Len(f.content) > 0
    /\ \/ CurrentOrder.detail_url = <<>>
       \/ d_requests' # d_requests /\ d_failed' # d_failed

\* The request of the order being processed succeeded.
DlSuccessStep == InLoop /\ d_downloaded' # d_downloaded

\* What a successful request leaves: the response body in the order's
\* file, and the order id mapped to that file in the result.
DlSuccessEffect ==
    /\ \E body \in Bodies :
          [name |-> CurrentPath, content |-> body] \in d_disk'
    /\ [order_id |-> CurrentOrder.order_id, path |-> CurrentPath]
          \in d_results'
    /\ d_pc' = "loop" /\ d_i' = d_i + 1

\* C21: a per-order download failure is isolated: an order with no cached
\* file and an empty URL, or whose request fails with an HTTP error, adds
\* nothing to the result and writes no file, the function does not raise,
\* and the loop goes on to the next order; an order whose request succeeds
\* has the response body written to its file and is in the result.  The
\* id of a failed order is absent from the result unless another order of
\* the list with the same id put it there.
C21_FailureIsolated ==
    [][/\ DlFailureStep
            => /\ d_results' = d_results
               /\ d_disk' = d_disk
               /\ d_pc' = "loop" /\ d_exc' = "none"
               /\ d_i' = d_i + 1
               /\ (\A k \in 1..(d_i - 1) :
                      d_orders[k].order_id # CurrentOrder.order_id)
                  => \A r \in d_results' :
                        r.order_id # CurrentOrder.order_id
       /\ DlSuccessStep => DlSuccessEffect]_vars

\* C21 as stated: the failed order is absent from the result, whatever the
\* other orders of the list are.
C21_FailedOrderAbsent ==
    [][DlFailureStep
          => \A r \in d_results' : r.order_id # CurrentOrder.order_id]_vars

\* The call returned after two orders: the first, with no file and no URL,
\* failed and is not in the result; the second was downloaded, its body is
\* in its file and it is in the result.
C21_Witness ==
    /\ d_pc = "returned" /\ Len(d_orders) = 2
    /\ d_failed = 1 /\ d_downloaded = 1
    /\ d_orders[1].detail_url = <<>>
    /\ ~\E f \in d_disk : f.name = FilePath(d_orders[1].order_id)
    /\ ~\E r \in d_results : r.order_id = d_orders[1].order_id
    /\ [name |-> FilePath(d_orders[2].order_id),
        content |-> <<"%", "P", "D", "F">>] \in d_disk
    /\ [order_id |-> d_orders[2].order_id,
        path |-> FilePath(d_orders[2].order_id)] \in d_results

\* What holds when download_detail_pdfs has returned: the three counters
\* add up to the number of orders, every key of the result is the id of an
\* order of the list, and every path of the result is a file of the
\* directory.
DlAccountAtReturn ==
    d_pc = "returned"
        => /\ d_downloaded + d_skipped + d_failed = Len(d_orders)
           /\ \A r \in d_results :
                 /\ \E k \in 1..Len(d_orders) :
                       d_orders[k].order_id = r.order_id
                 /\ r.path = FilePath(r.order_id)
                 /\ \E f \in d_disk : f.name = r.path

\* C29: download_detail_pdfs accounts for every order exactly once: each
\* step of the loop counts the order once, as downloaded, cached or
\* failed; at return the three counts add up to the number of orders, the
\* keys of the result are ids of the list and every path of the result is
\* a file on disk; the result starts empty and an order id enters it in
\* exactly the steps that find the file in the cache or download it.
C29_EveryOrderAccounted ==
    /\ [](DlAccountAtReturn)
    /\ [][InLoop
            => /\ (d_downloaded' + d_skipped' + d_failed')
                     - (d_downloaded + d_skipped + d_failed)
                  = d_i' - d_i
               /\ d_results' =
                     IF d_skipped' # d_skipped \/ d_downloaded' # d_downloaded
                     THEN d_results \cup {[order_id |-> CurrentOrder.order_id,
                                           path |-> CurrentPath]}
                     ELSE d_results
               /\ (d_skipped' # d_skipped)
                     <=> (d_i' # d_i /\ \E f \in d_disk :
                            f.name = CurrentPath /\ Len(f.content) > 0)
               /\ (d_downloaded' # d_downloaded)
                     => \E f \in d_disk' : f.name = CurrentPath]_vars

\* The call returned after two orders, one found in the cache and one
\* failed, with one entry in the result.
C29_Witness ==
    /\ d_pc = "returned" /\ Len(d_orders) = 2
    /\ d_skipped = 1 /\ d_failed = 1 /\ d_downloaded = 0
    /\ Cardinality(d_results) = 1
    /\ DlAccountAtReturn

----------------------------------------------------------------------------
(* Claims about the loader                                                 *)

\* The kinds of the statements an upsert of the invoice issues when it
\* completes: the order row, the DELETE of the item rows, one INSERT per
\* item and, for an instamart invoice with a handling fee, the fee row.
ExpectedKinds(kind, inv) ==
    <<"upsert_order", "delete_items">>
    \o [k \in 1..Len(inv.items) |-> "insert_item"]
    \o (IF kind = "instamart" /\ inv.handling_fee # <<>>
        THEN <<"upsert_handling">> ELSE <<>>)

\* C22: an order upsert issues its statements in a fixed order: the order
\* row upsert, the DELETE of the order's item rows, one item INSERT per
\* invoice item in list order, and last (instamart only) one handling-fee
\* upsert exactly when the invoice has a handling fee; a completed upsert
\* has issued 2 + number of items statements, plus 1 with a handling fee.
\* While the upsert runs the statements issued are a prefix of that list.
C22_StatementOrder ==
    LET want == ExpectedKinds(l_kind, l_inv)
    IN  l_pc # "idle"
           => /\ Len(l_log) <= Len(want)
              /\ \A k \in 1..Len(l_log) :
                    /\ l_log[k].stmt = want[k]
                    /\ l_log[k].stmt = "insert_item"
                          => l_log[k].row = l_inv.items[k - 2]
              /\ l_pc = "returned"
                    => /\ Len(l_log) = Len(want)
                       /\ Len(l_log) = 2 + Len(l_inv.items)
                             + (IF l_kind = "instamart"
                                   /\ l_inv.handling_fee # <<>>
                                THEN 1 ELSE 0)

\* An instamart upsert of two different items and a handling fee has
\* returned after five statements.
C22_Witness ==
    /\ l_pc = "returned" /\ l_kind = "instamart"
    /\ Len(l_inv.items) = 2 /\ l_inv.items[1] # l_inv.items[2]
    /\ l_inv.handling_fee # <<>>
    /\ Len(l_log) = 5
    /\ l_log[5].stmt = "upsert_handling"

\* C27: an upsert that raises ValidationError (invalid order id, invalid or
\* empty invoice date, invalid or empty handling-fee date) has executed no
\* SQL statement for that order.
C27_NoWriteBeforeValidationError ==
    l_exc = "ValidationError" => l_log = <<>>

\* The rows of the order of the upsert that has just returned, as the
\* tables hold them.
OrderRowsNow ==
    {r \in Stored(l_log).orders :
        r.table = OrdersTable[l_kind] /\ r.order_id = l_order_id}

ItemRowsNow ==
    SelectSeq(Stored(l_log).items,
        LAMBDA r : r.table = ItemsTable[l_kind] /\ r.order_id = l_order_id)

FeeRowsNow == {r \in Stored(l_log).fees : r.order_id = l_order_id}

\* The statements of the upsert that has just returned: the log from its
\* order-row upsert on.
LastUpsertStatements ==
    LET first == CHOOSE k \in 1..Len(l_log) :
                    /\ l_log[k].stmt = "upsert_order"
                    /\ \A n \in (k + 1)..Len(l_log) :
                          l_log[n].stmt # "upsert_order"
    IN  SubSeq(l_log, first, Len(l_log))

\* The order row and the item rows are those of the invoice last upserted,
\* and upserting that invoice once more changes nothing.
C28_RowsAndItemsOfLastInvoice ==
    l_pc = "returned"
        => /\ Cardinality(OrderRowsNow) = 1
           /\ \A r \in OrderRowsNow : r.row[1] = l_inv.invoice_no
           /\ Len(ItemRowsNow) = Len(l_inv.items)
           /\ \A k \in 1..Len(ItemRowsNow) :
                 ItemRowsNow[k].row = l_inv.items[k]
           /\ l_inv.handling_fee # <<>>
                 => /\ Cardinality(FeeRowsNow) = 1
                    /\ \A r \in FeeRowsNow :
                          r.row[1] = l_inv.handling_fee[1].invoice_no
           /\ Stored(l_log \o LastUpsertStatements) = Stored(l_log)

\* C28: after any sequence of upserts of one order id the stored state of
\* the order reflects exactly the invoice upserted last: its order row,
\* its items and no item of an earlier upsert, a handling-fee row exactly
\* when that invoice has a handling fee; and upserting the same invoice
\* twice leaves the state of upserting it once.
C28_StoredIsLastInvoice ==
    /\ C28_RowsAndItemsOfLastInvoice
    /\ (l_pc = "returned" /\ l_inv.handling_fee = <<>>) => FeeRowsNow = {}

----------------------------------------------------------------------------
(* Claims about the row scan                                               *)

\* The line under the index is a date line, and the line after it is on
\* the page and is no order-id line.
LoneDateHere ==
    /\ s_pc = "scan" /\ i + 1 <= Len(Lines)
    /\ MatchDate(Line(i))
    /\ ~MatchOrderId(Line(i + 1))

\* C23: when a date line is not immediately followed by a 15-digit line
\* the candidate is abandoned and the scan resumes at the date line's
\* immediate successor, which is itself examined as a possible row start.
C23_ResumeAtSuccessor ==
    [][LoneDateHere => (i' = i + 1 /\ page' = page /\ rows' = rows)]_vars

\* A text that has a space at either end or two spaces in a row.
OddlySpaced(t) ==
    /\ t # <<>>
    /\ \/ t[1] = " "
       \/ t[Len(t)] = " "
       \/ \E k \in 1..(Len(t) - 1) : t[k] = " " /\ t[k + 1] = " "

\* C24: the name of a row is built from only the non-blank lines between
\* the order-id line and the amount line, joined with single spaces: a
\* blank line contributes no fragment, so the name has no leading,
\* trailing or doubled space.
C24_NameFromNonBlankLines ==
    /\ \A k \in 1..Len(name_parts) : name_parts[k] # <<>>
    /\ ~OddlySpaced(Join(name_parts))
    /\ \A k \in 1..Len(rows) : ~OddlySpaced(rows[k].name)

\* What _extract_order_rows gave: its rows, or the exception that left it.
ScanOutcome ==
    [exc |-> s_exc, rows |-> IF s_exc = "none" THEN rows ELSE <<>>]

\* C25: the row scan treats the lines of all pages as one flat stream in
\* rendering order: the scan of a document gives what the scan of one page
\* holding all its lines gives, so a row whose lines straddle a page
\* boundary is extracted as one row.
C25_PagesAsOneStream ==
    ScanEnded => ScanOutcome = RowsFrom(Flatten(doc), 1, <<>>)

\* One iteration of the outer loop or of the name loop: a step on a page
\* that stays in the scan.
ScanIteration ==
    /\ s_pc \in {"scan", "name"} /\ i <= Len(Lines)
    /\ s_pc' \in {"scan", "name"}

\* C30: the row scan terminates on every finite input: on each page the
\* line index strictly increases on every iteration of the outer loop and
\* of the name loop, staying within two lines of the end of the page, the
\* pages are taken once, in order, so that no line is examined as a row
\* start twice, and the scan ends.
C30_ScanTerminates ==
    /\ [](page \in 1..Len(doc) /\ i \in 1..(Len(Lines) + 2))
    /\ [][/\ ScanIteration => (i' > i /\ page' = page)
          /\ page' # page => (page' = page + 1 /\ i' = 1 /\ i > Len(Lines))
          /\ i' >= i \/ page' # page]_vars
    /\ <>ScanEnded

\* The scan of two pages, with a date line and its order-id line among
\* them, has ended, its index past the last line of the last page.
C30_Witness ==
    /\ s_pc = "build" /\ Len(doc) = 2 /\ page = 2
    /\ i > Len(Lines)
    /\ order_id # <<>>


----------------------------------------------------------------------------
(* Claims about the loop of main over the orders of one summary           *)

\* The orders the loop has gone through.
MainDone == m_i - 1

\* C26, the step: an iteration that ends counts its order once, in exactly
\* one of the two counters, and counts it as loaded only if the detail file
\* was obtained, passed the PDF file check, was extracted to an invoice with
\* an order id, and the upsert returned.
MainCountsOnce ==
    /\ m_i' = m_i + 1
    /\ \/ m_loaded' = m_loaded + 1 /\ m_failed' = m_failed
       \/ m_loaded' = m_loaded /\ m_failed' = m_failed + 1
    /\ (m_loaded' # m_loaded) =>
          /\ MainCurrent.path
          /\ Len(MainCurrent.file) = 1
          /\ Len(MainCurrent.file[1]) > 0
          /\ ReadBytes(MainCurrent.file[1], 5) = PdfMagic
          /\ MainCurrent.parsed = "invoice"
          /\ MainCurrent.upsert = "ok"

\* C26: while the loop of process_food / process_instamart runs, loaded +
\* failed is the number of orders gone through, every iteration counts its
\* order exactly once as loaded or as failed, after the loop loaded + failed
\* is the number of orders, and an order is counted as loaded only if its
\* detail file was obtained, passed the PDF file check, was extracted to a
\* non-null invoice with a non-empty order id, and its upsert completed
\* without a ValidationError.
C26_EveryOrderCountedOnce ==
    /\ [](m_pc = "loop" => m_loaded + m_failed = MainDone)
    /\ [](m_pc = "committed" =>
             m_loaded + m_failed = Len(m_orders))
    /\ [][(m_pc = "loop" /\ <<m_i, m_loaded, m_failed>>' #
                              <<m_i, m_loaded, m_failed>>)
             => MainCountsOnce]_vars

\* The loop has ended on three orders: one was loaded, one failed the PDF
\* file check and one was refused by the upsert.
C26_Witness ==
    /\ m_pc = "committed"
    /\ Len(m_orders) = 3
    /\ m_loaded = 1
    /\ m_failed = 2
    /\ \E k \in 1..3 : m_orders[k].upsert = "ValidationError"
    /\ \E k \in 1..3 : m_orders[k].path /\ ValidatePdfFile(m_orders[k].file)

====
